---- MODULE Spec2Model ----
(***************************************************************************)
(* A model of the alert-driven variable-speed video synthesis engine of    *)
(* python-microservice: the per-frame alert engine (generate_frame_alerts  *)
(* driven by the frame scan of generate_frames), the optical-flow frame    *)
(* interpolation bookkeeping, the frame-duration scheduler, the video      *)
(* writer and the requests that read its file, the turn extraction and the *)
(* stage calls of process_complete_pipeline, the rate limiter of the       *)
(* landmark lookups and the frame selection and answer of generate_video.  *)
(*                                                                         *)
(* Distances are whole metres; durations and headings are exact rationals  *)
(* (floating-point rounding is not modelled).  A dedup key, a Python       *)
(* string "turn_<maneuver>_<bucket>" or "landmark_<name>_<bucket>", is the *)
(* tuple of its parts: the bucket is a number without "_", so the string   *)
(* is split uniquely at its last "_" and the formatting is injective.      *)
(***************************************************************************)
EXTENDS Integers, Sequences, FiniteSets, TLC

VARIABLES
    \* ---- alert engine (generate_frames scan over generate_frame_alerts)
    turns,             \* all_turns of generate_frames
    frame_idx,         \* idx of the next frame of the scan
    previous_alerts,   \* set of dedup keys threaded through the run
    landmark_history,  \* landmark name -> last recorded distance
    frame_alerts,      \* alerts returned by the last call
    rescanned,         \* the last frame was scanned a second time
    rescan_alerts,     \* alerts returned by the second scan of the frame
    pre_rescan,        \* (previous_alerts, landmark_history) before the second scan
    emit_count,        \* per dedup key, how often an alert was emitted in the run
    suppressed,        \* keys of the alerts the last call withheld as already fired
    passed,            \* landmarks once seen beyond recorded distance + tolerance
    frame_dict,        \* the output frame of the last scan step, with its alert
    call_made,         \* the turn distances and the landmark lookup of the last call
    turn_fired,        \* per turn: the distances at which an alert for it was emitted
    shown,             \* the keys of the alerts attached to the frames appended so far
    \* ---- frame interpolation (interpolate_frames)
    src_frames,        \* valid_frames: the source frame records, in route order
    interpolation_factor,
    istage,            \* "called", "start", "processed", "combined", "returned"
    all_frames,        \* path list returned by process_frame_sequence
    failed_writes,     \* the synthesized images cv2.imwrite could not save
    combined_frames,   \* records returned by create_interpolated_frames_data
    req_frames,        \* req.frames of interpolate_frames
    route_dir_found,   \* the route directory exists or is found by name
    iresult,           \* "none", "error" (no success key), "failed", "success"
    frames_data_json,  \* frames_data.json was written
    \* ---- duration scheduler and video writer
    frames_data,       \* the frame records with their alert fields
    fps,               \* target frames per second
    frame_durations,   \* result of calculate_frame_durations
    dstage,            \* "start", "scheduled"
    frame_paths,       \* the image files handed to the video writer
    quality,           \* "high", "medium", "low"
    openable,          \* the writers that would open: <<suffix, codec>>
    output_path,       \* suffix of the output file
    out,               \* codec of the opened writer, or "none"
    written,           \* the frames written to the container, in order
    total_written_frames,
    next_frame,        \* position of the write loop
    vstage,            \* "called", "writing", "returned", "ValueError", "RuntimeError"
    videos_dir,        \* the files of the route's videos directory
    served,            \* last answer of serve_video
    reported,          \* last answer of check_existing_route
    \* process_complete_pipeline
    pstage,            \* "idle", "called", "generated", "smoothed", "regenerated", "returned"
    stages_run,        \* the stage calls made so far: stage, input, outcome, output
    pipe_frames,       \* the frames handed to the next stage
    presult,           \* "none", "error", "exception", "pipeline_success"
    \* ---- turn extraction of generate_frames
    points_with_headings,  \* the route samples: lat, lon (metres on a plane), heading
    steps,             \* the steps of the directions response
    google_turns,      \* the provided turns, with their turn_index
    detected_turns,    \* result of detect_all_turns_from_path (then indexed)
    all_turns,         \* result of merge_turns
    tstage,             \* "start", "detected", "merged"
    \* the rate limiter of get_nearby_landmarks; time in tenths of a second
    now,                   \* time.time()
    LAST_PLACES_API_CALL,  \* the global of line 43
    rpc,                   \* per caller: "idle", "sleeping", "ready", "posting"
    wake_at,               \* per caller: the end of its time.sleep
    sent,                   \* the times at which the requests were sent, in order
    \* the frame selection of generate_video
    sel_frames,        \* the source frames that interpolate_frames worked on
    sel_factor,        \* its interpolation_factor
    sel_paths,         \* frame_paths of generate_video
    sel_data,          \* frames_data of generate_video
    sstage,             \* "idle", "interpolated", "selected"
    \* the answer of generate_video
    gv_result          \* NoResult, or success, video_path and video_filename

alertVars == <<turns, frame_idx, previous_alerts, landmark_history, frame_alerts,
               rescanned, rescan_alerts, pre_rescan, emit_count, suppressed, passed,
               frame_dict, call_made, turn_fired, shown>>
interpVars == <<src_frames, interpolation_factor, istage, all_frames, failed_writes,
                combined_frames, req_frames, route_dir_found, iresult, frames_data_json>>
durVars == <<frames_data, fps, frame_durations, dstage>>
videoVars == <<frame_paths, quality, openable, output_path, out, written,
               total_written_frames, next_frame, vstage, videos_dir>>
serveVars == <<served, reported>>
pipeVars == <<pstage, stages_run, pipe_frames, presult>>
turnVars == <<points_with_headings, steps, google_turns, detected_turns, all_turns,
              tstage>>
rateVars == <<now, LAST_PLACES_API_CALL, rpc, wake_at, sent>>
selVars == <<sel_frames, sel_factor, sel_paths, sel_data, sstage>>
genVars == <<gv_result>>
vars == <<alertVars, interpVars, durVars, videoVars, turnVars, serveVars, pipeVars, rateVars, selVars, genVars>>
otherThanAlert == <<interpVars, durVars, videoVars, turnVars, serveVars, pipeVars, rateVars, selVars, genVars>>
otherThanInterp == <<alertVars, durVars, videoVars, turnVars, serveVars, pipeVars, rateVars, selVars, genVars>>
otherThanDur == <<alertVars, interpVars, videoVars, turnVars, serveVars, pipeVars, rateVars, selVars, genVars>>
otherThanVideo == <<alertVars, interpVars, turnVars, serveVars, pipeVars, rateVars, selVars, genVars>>
otherThanTurn == <<alertVars, interpVars, durVars, videoVars, serveVars, pipeVars, rateVars, selVars, genVars>>
otherThanServe == <<alertVars, interpVars, durVars, videoVars, turnVars, pipeVars, rateVars, selVars, genVars>>
otherThanPipe == <<alertVars, interpVars, durVars, videoVars, turnVars, serveVars, rateVars, selVars, genVars>>
otherThanRate == <<alertVars, interpVars, durVars, videoVars, turnVars, serveVars, pipeVars, selVars, genVars>>
otherThanSel == <<alertVars, interpVars, durVars, videoVars, turnVars, serveVars, pipeVars, rateVars, genVars>>
otherThanGen == <<alertVars, interpVars, durVars, videoVars, turnVars, serveVars, pipeVars, rateVars, selVars>>

----------------------------------------------------------------------------
(* Bounds of the model *)

MaxFrames == 5
MaxPlaces == 2
MaxSources == 3
MaxFactor == 2
MaxWriteFailures == 1
MaxDurFrames == 44
MaxVideoFrames == 3
MaxVideoData == 12
MaxSamples == 5
MaxRoutePoints == 8
MaxSteps == 2
MaxPipeFrames == 3
MaxCallers == 2
MaxTime == 5
MaxRequests == 3
MaxSelFrames == 3

(* Program constants *)

None == -1

TURN_ALERT_DISTANCE == 120
LANDMARK_ALERT_DISTANCE == 200
TURN_BUCKET == 10
LANDMARK_BUCKET == 50
PASS_TOLERANCE == 5
LANDMARK_EVERY == 2
MAX_LANDMARKS == 3
ALERT_SLOWDOWN_FRAMES == 40
HEADING_CHANGE_THRESHOLD == 20
TURN_DETECTION_WINDOW == 3
DUPLICATE_DISTANCE == 30
TURN_SPEED_PERCENT == 5
LANDMARK_SPEED_PERCENT == 2

----------------------------------------------------------------------------
(* Inputs *)

Maneuvers == {"turn-left", "turn-right"}
TurnDists == {69, 75, 121}
LmDists == {120, 180, 190, 210}
LookupFailed == [ok |-> FALSE, places |-> <<>>]

\* A turn of all_turns: every turn carries the turn_index that generate_frames
\* assigned (app.py 1201, 1212), so the "'turn_index' in turn" test is true.
TurnIndexes == {1, MaxFrames - 1}
TurnLists ==
    { <<[maneuver |-> "turn-left", turn_index |-> 1],
        [maneuver |-> m2, turn_index |-> i2]>> :
        i2 \in TurnIndexes, m2 \in Maneuvers }

Place == [name : {"A"}, distance : LmDists] \cup {[name |-> "B", distance |-> 60]}

\* The provider lists the places it found in an order of its own: here farthest
\* first, so that the sort of get_nearby_landmarks has to reorder the list.
RECURSIVE FarthestFirst(_)
FarthestFirst(S) ==
    IF S = {} THEN <<>>
    ELSE LET p == CHOOSE x \in S : \A y \in S : y.distance <= x.distance
         IN  <<p>> \o FarthestFirst(S \ {p})

\* What the landmark provider answers: a failure, or a list of important places.
Responses ==
    {LookupFailed} \cup
    { [ok |-> TRUE, places |-> FarthestFirst(S)] :
        S \in { T \in SUBSET Place : Cardinality(T) <= MaxPlaces } }

----------------------------------------------------------------------------
(* get_nearby_landmarks *)

RECURSIVE InsertByDistance(_, _)
InsertByDistance(sorted, p) ==
    IF sorted = <<>> THEN <<p>>
    ELSE IF sorted[Len(sorted)].distance <= p.distance THEN Append(sorted, p)
    ELSE Append(InsertByDistance(SubSeq(sorted, 1, Len(sorted) - 1), p), sorted[Len(sorted)])

RECURSIVE SortByDistance(_)
SortByDistance(s) ==
    IF s = <<>> THEN <<>>
    ELSE InsertByDistance(SortByDistance(SubSeq(s, 1, Len(s) - 1)), s[Len(s)])

Min(a, b) == IF a <= b THEN a ELSE b

\* a failed response taken for one place without name and location
LandmarksDespiteFailure(response) ==
    IF ~response.ok THEN <<[name |-> "Unknown", distance |-> 0]>>
    ELSE LET sorted == SortByDistance(response.places)
         IN  SubSeq(sorted, 1, Min(MAX_LANDMARKS, Len(sorted)))

get_nearby_landmarks(response) ==
    IF ~response.ok THEN <<>>
    ELSE LET sorted == SortByDistance(response.places)
         IN  SubSeq(sorted, 1, Min(MAX_LANDMARKS, Len(sorted)))

----------------------------------------------------------------------------
(* generate_frame_alerts *)

Bucket(distance, size) == (distance \div size) * size
TurnKey(maneuver, distance) == <<"turn", maneuver, Bucket(distance, TURN_BUCKET)>>
LandmarkKey(name, distance) == <<"landmark", name, Bucket(distance, LANDMARK_BUCKET)>>

TurnBehindOffByOne(turn, frame_index) == frame_index > turn.turn_index

\* line 699: the turn is at or behind the frame
TurnBehind(turn, frame_index) == frame_index >= turn.turn_index

KeyAlwaysNew(key, prev) == TRUE

\* line 708 / 741: the dedup test
KeyIsNew(key, prev) == key \notin prev

KeyNotRecorded(key, prev) == prev

\* line 716 / 750: the key is recorded
RecordKey(key, prev) == prev \cup {key}

\* line 731: the landmark's distance grew beyond the tolerance
HasPassed(current_distance, last_distance) == current_distance > last_distance + PASS_TOLERANCE

TurnAlert(t, distance) ==
    [alertType |-> "turn", alertDistance |-> distance, alertIcon |-> turns[t].maneuver,
     priority |-> 1, key |-> TurnKey(turns[t].maneuver, distance), turn |-> t]

LandmarkAlert(lm) ==
    [alertType |-> "landmark", alertDistance |-> lm.distance, alertIcon |-> lm.name,
     priority |-> 2, key |-> LandmarkKey(lm.name, lm.distance), turn |-> 0]

\* one iteration of the loop over turns (lines 698-716)
TurnStep(acc, t, distance, frame_index) ==
    IF TurnBehind(turns[t], frame_index) THEN acc
    ELSE IF distance <= TURN_ALERT_DISTANCE
         THEN IF KeyIsNew(TurnKey(turns[t].maneuver, distance), acc.prev)
              THEN [acc EXCEPT !.alerts = Append(@, TurnAlert(t, distance)),
                               !.prev = RecordKey(TurnKey(turns[t].maneuver, distance), @)]
              ELSE [acc EXCEPT !.suppressed = @ \cup {TurnKey(turns[t].maneuver, distance)}]
         ELSE acc

RECURSIVE TurnLoop(_, _, _, _)
TurnLoop(acc, t, dists, frame_index) ==
    IF t > Len(turns) THEN acc
    ELSE TurnLoop(TurnStep(acc, t, dists[t], frame_index), t + 1, dists, frame_index)

\* one iteration of the loop over landmarks (lines 722-750)
LandmarkStep(acc, lm) ==
    IF lm.name \in DOMAIN acc.hist /\ HasPassed(lm.distance, acc.hist[lm.name])
    THEN [acc EXCEPT !.passed = @ \cup {lm.name}]
    ELSE LET seen == [acc EXCEPT !.hist =
                         [n \in DOMAIN acc.hist \cup {lm.name} |->
                             IF n = lm.name THEN lm.distance ELSE acc.hist[n]]]
         IN  IF lm.distance <= LANDMARK_ALERT_DISTANCE
             THEN IF KeyIsNew(LandmarkKey(lm.name, lm.distance), seen.prev)
                  THEN [seen EXCEPT !.alerts = Append(@, LandmarkAlert(lm)),
                                    !.prev = RecordKey(LandmarkKey(lm.name, lm.distance), @)]
                  ELSE [seen EXCEPT !.suppressed = @ \cup {LandmarkKey(lm.name, lm.distance)}]
             ELSE seen

RECURSIVE LandmarkLoop(_, _, _)
LandmarkLoop(acc, i, landmarks) ==
    IF i > Len(landmarks) THEN acc
    ELSE LandmarkLoop(LandmarkStep(acc, landmarks[i]), i + 1, landmarks)

NearerFirst(a, b) == a.alertDistance <= b.alertDistance

\* line 752: alerts.sort(key=(priority, alertDistance)), a stable sort
AlertBefore(a, b) ==
    a.priority < b.priority \/ (a.priority = b.priority /\ a.alertDistance <= b.alertDistance)

RECURSIVE InsertAlert(_, _)
InsertAlert(sorted, a) ==
    IF sorted = <<>> THEN <<a>>
    ELSE IF AlertBefore(sorted[Len(sorted)], a) THEN Append(sorted, a)
    ELSE Append(InsertAlert(SubSeq(sorted, 1, Len(sorted) - 1), a), sorted[Len(sorted)])

RECURSIVE SortAlerts(_)
SortAlerts(s) ==
    IF s = <<>> THEN <<>>
    ELSE InsertAlert(SortAlerts(SubSeq(s, 1, Len(s) - 1)), s[Len(s)])

\* line 719: landmarks are looked up on every second frame only
LandmarkFrame(frame_index) == frame_index % LANDMARK_EVERY = 0

generate_frame_alerts(call, prev, hist) ==
    LET start == [alerts |-> <<>>, prev |-> prev, hist |-> hist, passed |-> {},
                  suppressed |-> {}]
        afterTurns == TurnLoop(start, 1, call.dists, call.frame_index)
        afterLandmarks ==
            IF LandmarkFrame(call.frame_index)
            THEN LandmarkLoop(afterTurns, 1, get_nearby_landmarks(call.response))
            ELSE afterTurns
    IN  [afterLandmarks EXCEPT !.alerts = SortAlerts(@)]

----------------------------------------------------------------------------
(* The frame scan of generate_frames, and a re-scan of the last frame *)

Range(s) == { s[i] : i \in DOMAIN s }

\* emit_count after the alerts of one more call
RECURSIVE CountEmitted(_, _)
CountEmitted(count, alerts) ==
    IF alerts = <<>> THEN count
    ELSE LET k == Head(alerts).key
             n == IF k \in DOMAIN count THEN count[k] + 1 ELSE 1
         IN  CountEmitted([x \in DOMAIN count \cup {k} |-> IF x = k THEN n ELSE count[x]],
                          Tail(alerts))

\* The distance to a turn behind the frame is never computed (line 700): it is
\* given as 0 here.
DistChoices(frame_index) ==
    { d \in [1..2 -> TurnDists \cup {0}] :
        \A t \in 1..2 : d[t] = 0 <=> TurnBehind(turns[t], frame_index) }

Calls(frame_index) ==
    { [frame_index |-> frame_index, dists |-> d, response |-> r] :
        d \in DistChoices(frame_index),
        r \in IF LandmarkFrame(frame_index) THEN Responses ELSE {LookupFailed} }

\* no frame is appended when the image could not be fetched (line 1241)
NoFrame == [idx |-> None, attached |-> <<>>]

\* generate_frames 1236-1255: the frame record, updated with the first alert
FrameDict(idx, alerts) ==
    [idx |-> idx, attached |-> IF alerts # <<>> THEN <<alerts[1]>> ELSE <<>>]

NoCall == [dists |-> <<>>, lookup |-> "none"]

\* what the call saw: the distances to the turns and how the lookup went
CallMade(call) ==
    [dists |-> call.dists,
     lookup |-> IF ~LandmarkFrame(call.frame_index) THEN "skipped"
                ELSE IF call.response.ok THEN "ok" ELSE "failed"]

\* the distances of the turn alerts of a call, added turn by turn
FiredAfter(fired, alerts) ==
    [t \in DOMAIN fired |->
        fired[t] \cup { alerts[i].alertDistance :
                          i \in { j \in DOMAIN alerts : alerts[j].turn = t } }]

\* lines 1252-1255: the keys of the alerts that the appended frame shows
ShownKeys(frame) == { frame.attached[i].key : i \in DOMAIN frame.attached }

AlertInit ==
    /\ turns \in TurnLists
    /\ turn_fired = [t \in 1..2 |-> {}]
    /\ shown = {}
    /\ call_made = NoCall
    /\ frame_dict = NoFrame
    /\ frame_idx = 0
    /\ previous_alerts = {}
    /\ landmark_history = << >>
    /\ frame_alerts = <<>>
    /\ rescanned = FALSE
    /\ rescan_alerts = <<>>
    /\ pre_rescan = [prev |-> {}, hist |-> << >>]
    /\ emit_count = << >>
    /\ suppressed = {}
    /\ passed = {}

\* generate_frames 1223-1255: the next frame of the route is scanned
ScanFrame ==
    /\ frame_idx < MaxFrames
    /\ \E call \in Calls(frame_idx) :
        \E r \in {generate_frame_alerts(call, previous_alerts, landmark_history)} :
              /\ frame_alerts' = r.alerts
              /\ call_made' = CallMade(call)
              /\ \E fetched \in BOOLEAN :
                    frame_dict' = IF fetched THEN FrameDict(frame_idx, r.alerts)
                                  ELSE NoFrame
              /\ shown' = shown \cup ShownKeys(frame_dict')
              /\ turn_fired' = FiredAfter(turn_fired, r.alerts)
              /\ previous_alerts' = r.prev
              /\ landmark_history' = r.hist
              /\ passed' = passed \cup r.passed
              /\ emit_count' = CountEmitted(emit_count, r.alerts)
              /\ suppressed' = r.suppressed
              /\ pre_rescan' = [prev |-> r.prev, hist |-> r.hist]
    /\ frame_idx' = frame_idx + 1
    /\ rescanned' = FALSE
    /\ rescan_alerts' = <<>>
    /\ UNCHANGED <<turns, otherThanAlert>>

\* the next frame is scanned, and scanned again with the same arguments and
\* the state that the first call returned
ScanFrameTwice ==
    /\ frame_idx < MaxFrames
    /\ \E call \in Calls(frame_idx) :
        \E r1 \in {generate_frame_alerts(call, previous_alerts, landmark_history)} :
          \E r2 \in {generate_frame_alerts(call, r1.prev, r1.hist)} :
              /\ frame_alerts' = r1.alerts
              /\ call_made' = CallMade(call)
              /\ frame_dict' = FrameDict(frame_idx, r1.alerts)
              /\ shown' = shown \cup ShownKeys(frame_dict')
              /\ turn_fired' = FiredAfter(FiredAfter(turn_fired, r1.alerts), r2.alerts)
              /\ pre_rescan' = [prev |-> r1.prev, hist |-> r1.hist]
              /\ rescan_alerts' = r2.alerts
              /\ previous_alerts' = r2.prev
              /\ landmark_history' = r2.hist
              /\ passed' = passed \cup r1.passed \cup r2.passed
              /\ emit_count' = CountEmitted(CountEmitted(emit_count, r1.alerts), r2.alerts)
              /\ suppressed' = r2.suppressed
    /\ frame_idx' = frame_idx + 1
    /\ rescanned' = TRUE
    /\ UNCHANGED <<turns, otherThanAlert>>

AlertIdle ==
    /\ turns = <<>>
    /\ turn_fired = <<>>
    /\ shown = {}
    /\ call_made = NoCall
    /\ frame_dict = NoFrame
    /\ frame_idx = 0
    /\ previous_alerts = {}
    /\ landmark_history = << >>
    /\ frame_alerts = <<>>
    /\ rescanned = FALSE
    /\ rescan_alerts = <<>>
    /\ pre_rescan = [prev |-> {}, hist |-> << >>]
    /\ emit_count = << >>
    /\ suppressed = {}
    /\ passed = {}

----------------------------------------------------------------------------
(* The duration scheduler: calculate_frame_durations.  A duration is the exact *)
(* rational num / den seconds; the multipliers 0.05 and 0.02 are 5 and 2       *)
(* percent, a transition factor 0.9 is 9 tenths.                               *)

NoAlert == [alert |-> "", alertType |-> ""]
\* the alert fields generate_frames attaches together (1252-1253)
AlertKinds == { [alert |-> "text", alertType |-> "turn"],
                [alert |-> "text", alertType |-> "landmark"] }

\* lines 779 and 786: the frame counts as carrying an alert
HasAlert(frame) == frame.alert \notin {"", "null"} \/ frame.alertType # ""

\* lines 795-800: the frames of turn_frames / landmark_frames
FramesOfType(data, type) ==
    { i \in DOMAIN data : HasAlert(data[i]) /\ data[i].alertType = type }

Abs(x) == IF x < 0 THEN -x ELSE x
INF == 1000000

RECURSIVE MinOf(_)
MinOf(S) == IF S = {} THEN INF
            ELSE LET x == CHOOSE y \in S : TRUE IN Min(x, MinOf(S \ {x}))

WindowWide(i) == (i - ALERT_SLOWDOWN_FRAMES - 1)..(i + ALERT_SLOWDOWN_FRAMES + 1)

\* line 821: the frames check_idx = i + offset that are looked at
Window(i) == (i - ALERT_SLOWDOWN_FRAMES)..(i + ALERT_SLOWDOWN_FRAMES)

\* lines 817-829: the distance to the nearest alert frame of one kind, or INF
ClosestDistance(i, alert_frames) ==
    MinOf({ Abs(check_idx - i) : check_idx \in Window(i) \cap alert_frames })

SlowedInverted(base_fps, percent, tenths) ==
    [num |-> 1000, den |-> base_fps * (percent * (10 - tenths) + 100 * tenths)]

\* base_duration / (multiplier * transition_factor + (1 - transition_factor))
Slowed(base_fps, percent, tenths) ==
    [num |-> 1000, den |-> base_fps * (percent * tenths + 100 * (10 - tenths))]

BaseDuration(base_fps) == [num |-> 1, den |-> base_fps]

\* lines 837-859
LandmarkDuration(base_fps, distance) ==
    IF distance = 0 THEN [num |-> 100, den |-> base_fps * LANDMARK_SPEED_PERCENT]
    ELSE IF distance <= 5 THEN Slowed(base_fps, LANDMARK_SPEED_PERCENT, 9)
    ELSE IF distance <= 10 THEN Slowed(base_fps, LANDMARK_SPEED_PERCENT, 7)
    ELSE IF distance <= 20 THEN Slowed(base_fps, LANDMARK_SPEED_PERCENT, 5)
    ELSE Slowed(base_fps, LANDMARK_SPEED_PERCENT, 3)

\* lines 866-879
TurnDuration(base_fps, distance) ==
    IF distance = 0 THEN [num |-> 100, den |-> base_fps * TURN_SPEED_PERCENT]
    ELSE IF distance <= 3 THEN Slowed(base_fps, TURN_SPEED_PERCENT, 9)
    ELSE IF distance <= 7 THEN Slowed(base_fps, TURN_SPEED_PERCENT, 6)
    ELSE Slowed(base_fps, TURN_SPEED_PERCENT, 3)

TurnFirstDuration(base_fps, closest_landmark_distance, closest_turn_distance) ==
    IF closest_turn_distance # INF THEN TurnDuration(base_fps, closest_turn_distance)
    ELSE IF closest_landmark_distance # INF
         THEN LandmarkDuration(base_fps, closest_landmark_distance)
    ELSE BaseDuration(base_fps)

\* lines 831-882: landmarks first, then turns, else normal speed
DurationFor(base_fps, closest_landmark_distance, closest_turn_distance) ==
    IF closest_landmark_distance # INF
    THEN LandmarkDuration(base_fps, closest_landmark_distance)
    ELSE IF closest_turn_distance # INF THEN TurnDuration(base_fps, closest_turn_distance)
    ELSE BaseDuration(base_fps)

calculate_frame_durations(data, base_fps) ==
    LET turn_frames == FramesOfType(data, "turn")
        landmark_frames == FramesOfType(data, "landmark")
    IN  IF Cardinality(turn_frames) + Cardinality(landmark_frames) = 0
        THEN [i \in 1..Len(data) |-> BaseDuration(base_fps)]
        ELSE [i \in 1..Len(data) |->
                 DurationFor(base_fps, ClosestDistance(i, landmark_frames),
                             ClosestDistance(i, turn_frames))]

\* a frame list of n frames with the given alerts at the given places
FramesWith(n, alerts) ==
    [i \in 1..n |-> IF i \in DOMAIN alerts THEN alerts[i] ELSE NoAlert]

\* no alert, one alert, or two alerts at different places
AlertPlaces(n) ==
    { {} } \cup { {i} : i \in 1..n } \cup { {i, j} : i, j \in 1..n }

AlertPlacements(n) == UNION { [P -> AlertKinds] : P \in AlertPlaces(n) }

FpsChoices == {24, 30}

DurInit ==
    /\ \E n \in {0, 2, MaxDurFrames} : frames_data \in { FramesWith(n, a) : a \in AlertPlacements(n) }
    /\ fps \in FpsChoices
    /\ frame_durations = <<>>
    /\ dstage = "start"

DurIdle ==
    /\ frames_data = <<>>
    /\ fps = 30
    /\ frame_durations = <<>>
    /\ dstage = "idle"

\* generate_video_with_dynamic_speed 912
CalculateFrameDurations ==
    /\ dstage = "start"
    /\ frame_durations' = calculate_frame_durations(frames_data, fps)
    /\ dstage' = "scheduled"
    /\ UNCHANGED <<frames_data, fps, otherThanDur>>

DurNext == CalculateFrameDurations

----------------------------------------------------------------------------
(* The video writer: generate_video_with_dynamic_speed.  A frame path is the  *)
(* record of what reading the file gives; a written frame is the position of  *)
(* its source image in frame_paths.                                           *)

Codecs == {"mp4v", "XVID", "MJPG"}
Writers == ({".mp4"} \X Codecs) \cup {<<".avi", "XVID">>}

\* lines 914-919
codec_list(q) ==
    IF q = "high" THEN <<"mp4v", "XVID", "MJPG">>
    ELSE IF q = "medium" THEN <<"XVID", "MJPG">>
    ELSE <<"MJPG">>

RECURSIVE LastOpened(_, _, _)
LastOpened(list, path, opening) ==
    IF list = <<>> THEN "none"
    ELSE IF <<path, list[Len(list)]>> \in opening THEN list[Len(list)]
    ELSE LastOpened(SubSeq(list, 1, Len(list) - 1), path, opening)

\* lines 921-929: the first codec of the list whose writer opens, or "none"
RECURSIVE FirstOpened(_, _, _)
FirstOpened(list, path, opening) ==
    IF list = <<>> THEN "none"
    ELSE IF <<path, Head(list)>> \in opening THEN Head(list)
    ELSE FirstOpened(Tail(list), path, opening)

Truncated(p, q) == p \div q

\* Python's round(p / q) for p >= 0, q > 0: to nearest, a tie to the even number
Round(p, q) ==
    LET f == p \div q
        r == 2 * (p % q)
    IN  IF r < q THEN f
        ELSE IF r > q THEN f + 1
        ELSE IF f % 2 = 0 THEN f ELSE f + 1

Max(a, b) == IF a > b THEN a ELSE b

\* line 953
TargetDuration(i, durations, base_fps) ==
    IF i <= Len(durations) THEN durations[i] ELSE BaseDuration(base_fps)

\* line 954: target_duration / base_frame_duration is (num * fps) / den
RepeatCount(target_duration, base_fps) ==
    Max(1, Round(target_duration.num * base_fps, target_duration.den))

Repeated(x, n) == [k \in 1..n |-> x]

VideoData ==
    { FramesWith(n, a) : n \in {0, 1}, a \in {<<>>} }
    \cup { FramesWith(1, a) : a \in [{1} -> AlertKinds] }
    \cup { FramesWith(MaxVideoData, a) :
             a \in UNION { [{i} -> AlertKinds] : i \in 1..MaxVideoData } }

VideoInit ==
    /\ frame_paths \in UNION { [1..n -> [readable : BOOLEAN]] : n \in 0..MaxVideoFrames }
    /\ frames_data \in VideoData
    /\ fps \in FpsChoices
    /\ quality \in {"high", "medium", "low"}
    /\ openable \in SUBSET Writers
    /\ frame_durations = <<>>
    /\ dstage = "start"
    /\ output_path = ".mp4"
    /\ out = "none"
    /\ written = <<>>
    /\ total_written_frames = 0
    /\ next_frame = 1
    /\ vstage = "called"
    /\ videos_dir = {}

VideoIdle ==
    /\ frame_paths = <<>>
    /\ quality = "high"
    /\ openable = {}
    /\ output_path = ".mp4"
    /\ out = "none"
    /\ written = <<>>
    /\ total_written_frames = 0
    /\ next_frame = 1
    /\ vstage = "idle"
    /\ videos_dir = {}
    /\ served = "none"
    /\ reported = "none"

\* lines 894-936: read the first frame, schedule the durations, open a writer
OpenVideo ==
    /\ vstage = "called"
    /\ IF frame_paths = <<>> \/ ~frame_paths[1].readable
       THEN /\ vstage' = "ValueError"
            /\ UNCHANGED <<frame_durations, dstage, output_path, out, videos_dir>>
       ELSE /\ frame_durations' = calculate_frame_durations(frames_data, fps)
            /\ dstage' = "scheduled"
            /\ \E c \in {FirstOpened(codec_list(quality), ".mp4", openable)} :
                 IF c # "none"
                 THEN /\ out' = c /\ output_path' = ".mp4" /\ vstage' = "writing"
                      /\ videos_dir' = videos_dir \cup {".mp4"}
                 ELSE /\ output_path' = ".avi"
                      /\ IF <<".avi", "XVID">> \in openable
                         THEN /\ out' = "XVID" /\ vstage' = "writing"
                              /\ videos_dir' = videos_dir \cup {".avi"}
                         ELSE /\ out' = "none" /\ vstage' = "RuntimeError"
                              /\ UNCHANGED videos_dir
    /\ UNCHANGED <<frames_data, fps, frame_paths, quality, openable, written,
                   total_written_frames, next_frame, otherThanVideo>>

\* lines 945-968: one turn of the write loop
WriteFrame ==
    /\ vstage = "writing"
    /\ next_frame <= Len(frame_paths)
    /\ IF ~frame_paths[next_frame].readable
       THEN UNCHANGED <<written, total_written_frames>>
       ELSE \E repeat_count \in
                 {RepeatCount(TargetDuration(next_frame, frame_durations, fps), fps)} :
              /\ written' = written \o Repeated(next_frame, repeat_count)
              /\ total_written_frames' = total_written_frames + repeat_count
    /\ next_frame' = next_frame + 1
    /\ UNCHANGED <<frames_data, fps, frame_durations, dstage, frame_paths, quality,
                   openable, output_path, out, vstage, videos_dir, otherThanVideo>>

\* lines 970-992: release the writer and return the result
ReleaseVideo ==
    /\ vstage = "writing"
    /\ next_frame > Len(frame_paths)
    /\ vstage' = "returned"
    /\ UNCHANGED <<frames_data, fps, frame_durations, dstage, frame_paths, quality,
                   openable, output_path, out, written, total_written_frames,
                   next_frame, videos_dir, otherThanVideo>>

VideoNext == OpenVideo \/ WriteFrame \/ ReleaseVideo

----------------------------------------------------------------------------
(* The answer of generate_video.  The path and the file name are given by    *)
(* their suffix, like output_path.                                           *)

NoResult == [success |-> FALSE, video_path |-> "none", video_filename |-> "none"]

Failure == [success |-> FALSE, video_path |-> "", video_filename |-> ""]

GenInit == gv_result = NoResult

GenIdle == gv_result = NoResult

\* lines 1528-1551: video_path is the .mp4 path made at 1528-1529; its size
\* is read at 1533 and the answer names video_path and video_filename.
\* left: a file is at the .mp4 path although the writer wrote elsewhere
\* (left by an opening that failed, or by an earlier run).
ReturnVideo ==
    /\ vstage \in {"returned", "ValueError", "RuntimeError"}
    /\ gv_result = NoResult
    /\ \E left \in BOOLEAN :
         gv_result' =
            IF vstage # "returned" THEN Failure
            ELSE IF ".mp4" \in videos_dir \/ left
                 THEN [success |-> TRUE, video_path |-> ".mp4", video_filename |-> ".mp4"]
                 ELSE Failure
    /\ UNCHANGED otherThanGen

GenNext == VideoNext \/ ReturnVideo

----------------------------------------------------------------------------
(* serve_video and check_existing_route, running beside generate_video *)

\* what a reader of the file finds: the writer of lines 921-970 writes into
\* the file of output_path itself and the file is whole once it is released
FileState(filename) ==
    IF filename \notin videos_dir THEN "absent"
    ELSE IF vstage = "returned" THEN "complete"
    ELSE "partial"

ServeInit ==
    /\ served = "none"
    /\ reported = "none"

\* lines 1553-1570, for the route of the video
ServeVideo ==
    /\ vstage # "idle"
    /\ \E filename \in {".mp4", ".avi"} :
         served' = IF filename \notin videos_dir THEN "Video not found"
                   ELSE FileState(filename)
    /\ UNCHANGED <<reported, otherThanServe>>

\* lines 1048-1125; the video looked for is the expected .mp4 or any *.mp4
CheckExistingRoute ==
    /\ vstage # "idle"
    /\ \E has_frames_data \in BOOLEAN :
         reported' = IF ~has_frames_data THEN "not exists"
                     ELSE IF ".mp4" \notin videos_dir THEN "video_available false"
                     ELSE FileState(".mp4")
    /\ UNCHANGED <<served, otherThanServe>>

ServeNext == VideoNext \/ ServeVideo \/ CheckExistingRoute

----------------------------------------------------------------------------
(* Turn extraction: detect_all_turns_from_path, find_closest_point_index and   *)
(* merge_turns, as generate_frames calls them.  A location is a point <<x, y>> *)
(* of a plane, in metres; the great-circle distance of two locations is their  *)
(* distance in the plane and is compared through its square.  A heading is a  *)
(* whole number of degrees in 0..359.  Sample and turn indexes count from 0,  *)
(* as in the source: sample i is points_with_headings[i + 1].                 *)

\* haversine, squared
Dist2(p, q) == (p[1] - q[1]) * (p[1] - q[1]) + (p[2] - q[2]) * (p[2] - q[2])

RECURSIVE WrapDiff(_)
WrapDiff(diff) ==
    IF diff > 180 THEN WrapDiff(diff - 360)
    ELSE IF diff < -180 THEN WrapDiff(diff + 360)
    ELSE diff

normalize_angle_difference(angle1, angle2) == Abs(WrapDiff(angle2 - angle1))

ChangeAboveThreshold(heading_change) == heading_change > HEADING_CHANGE_THRESHOLD

\* line 494
ChangeQualifies(heading_change) == heading_change >= HEADING_CHANGE_THRESHOLD

\* lines 495-512
ManeuverOf(current_heading, future_heading, heading_change) ==
    IF WrapDiff(future_heading - current_heading) < 0
    THEN IF heading_change > 60 THEN "turn-sharp-left"
         ELSE IF heading_change > 30 THEN "turn-left" ELSE "turn-slight-left"
    ELSE IF heading_change > 60 THEN "turn-sharp-right"
         ELSE IF heading_change > 30 THEN "turn-right" ELSE "turn-slight-right"

Location(p) == <<p.lat, p.lon>>

\* lines 514-526
DetectedTurn(p, current_heading, future_heading, heading_change) ==
    [maneuver |-> ManeuverOf(current_heading, future_heading, heading_change),
     start_location |-> Location(p),
     heading_change |-> heading_change,
     source |-> "detected"]

\* the loop of lines 488-526 from sample i on
RECURSIVE DetectFrom(_, _)
DetectFrom(points, i) ==
    IF i >= Len(points) - TURN_DETECTION_WINDOW THEN <<>>
    ELSE LET current_heading == points[i + 1].heading
             future_heading == points[i + 1 + TURN_DETECTION_WINDOW].heading
             heading_change == normalize_angle_difference(current_heading, future_heading)
         IN  (IF ChangeQualifies(heading_change)
              THEN <<DetectedTurn(points[i + 1], current_heading, future_heading,
                                  heading_change)>>
              ELSE <<>>) \o DetectFrom(points, i + 1)

detect_all_turns_from_path(points) == DetectFrom(points, 0)

\* the loop of lines 250-254 from sample i on
RECURSIVE ClosestFrom(_, _, _, _, _)
ClosestFrom(loc, points, i, min_dist, best_idx) ==
    IF i >= Len(points) THEN best_idx
    ELSE LET d == Dist2(loc, Location(points[i + 1]))
         IN  IF d < min_dist THEN ClosestFrom(loc, points, i + 1, d, i)
             ELSE ClosestFrom(loc, points, i + 1, min_dist, best_idx)

find_closest_point_index(loc, points) == ClosestFrom(loc, points, 0, INF, 0)

DuplicateOrTouching(detected, google) ==
    \E k \in DOMAIN google :
        Dist2(detected.start_location, google[k].start_location)
            <= DUPLICATE_DISTANCE * DUPLICATE_DISTANCE

\* lines 540-547
IsDuplicate(detected, google) ==
    \E k \in DOMAIN google :
        Dist2(detected.start_location, google[k].start_location)
            < DUPLICATE_DISTANCE * DUPLICATE_DISTANCE

RECURSIVE KeepNew(_, _)
KeepNew(detected, google) ==
    IF detected = <<>> THEN <<>>
    ELSE (IF IsDuplicate(Head(detected), google) THEN <<>> ELSE <<Head(detected)>>)
         \o KeepNew(Tail(detected), google)

merge_turns(google, detected) == google \o KeepNew(detected, google)

\* generate_frames 1183-1203: the steps that carry a maneuver, with turn_index
RECURSIVE GoogleTurns(_, _)
GoogleTurns(step_list, points) ==
    IF step_list = <<>> THEN <<>>
    ELSE (IF Head(step_list).maneuver # ""
          THEN <<[maneuver |-> Head(step_list).maneuver,
                  start_location |-> Head(step_list).start_location,
                  turn_index |-> find_closest_point_index(
                                     Head(step_list).start_location, points),
                  source |-> "google"]>>
          ELSE <<>>) \o GoogleTurns(Tail(step_list), points)

\* generate_frames 1207-1212
WithTurnIndex(turn, points) ==
    [maneuver |-> turn.maneuver,
     start_location |-> turn.start_location,
     heading_change |-> turn.heading_change,
     source |-> turn.source,
     turn_index |-> find_closest_point_index(turn.start_location, points)]

\* ---- inputs

HeadingChoices == {0, 10, 19, 20, 200, 350}
SampleSpacing == 5

\* samples along a line, each with any of the headings
SamplesOfLen(n) ==
    { [i \in 1..n |-> [lat |-> SampleSpacing * (i - 1), lon |-> 0, heading |-> h[i]]] :
        h \in [1..n -> HeadingChoices] }

Directions == {"E", "N", "W"}

\* calculate_heading towards the next point
HeadingOf(dir) == IF dir = "N" THEN 0 ELSE IF dir = "E" THEN 90 ELSE 270

Moved(p, dir) ==
    IF dir = "N" THEN <<p[1], p[2] + SampleSpacing>>
    ELSE IF dir = "E" THEN <<p[1] + SampleSpacing, p[2]>>
    ELSE <<p[1] - SampleSpacing, p[2]>>

\* the route points reached by the moves, starting at the origin
RECURSIVE PointsOf(_, _)
PointsOf(moves, from) ==
    IF moves = <<>> THEN <<>>
    ELSE <<[lat |-> from[1], lon |-> from[2], heading |-> HeadingOf(Head(moves))]>>
         \o PointsOf(Tail(moves), Moved(from, Head(moves)))

\* generate_frames 1171-1181: one sample per route point but the last
Routes ==
    { PointsOf(<<"E">> \o m, <<0, 0>>) :
        m \in [1..(MaxRoutePoints - 2) -> Directions] }

StepLocations == { <<-25, 0>>, <<-20, 0>>, <<10, 0>> }
StepKinds == [maneuver : {"", "turn-left"}, start_location : StepLocations]
StepLists == UNION { [1..n -> StepKinds] : n \in 0..MaxSteps }

TurnIdle ==
    /\ points_with_headings = <<>>
    /\ steps = <<>>
    /\ google_turns = <<>>
    /\ detected_turns = <<>>
    /\ all_turns = <<>>
    /\ tstage = "idle"

DetectInit ==
    /\ points_with_headings \in UNION { SamplesOfLen(n) : n \in 0..MaxSamples }
    /\ steps = <<>>
    /\ google_turns = <<>>
    /\ detected_turns = <<>>
    /\ all_turns = <<>>
    /\ tstage = "start"

RouteInit ==
    /\ points_with_headings \in Routes
    /\ steps \in StepLists
    /\ google_turns = <<>>
    /\ detected_turns = <<>>
    /\ all_turns = <<>>
    /\ tstage = "start"

\* a call of detect_all_turns_from_path
DetectTurns ==
    /\ tstage = "start"
    /\ detected_turns' = detect_all_turns_from_path(points_with_headings)
    /\ tstage' = "detected"
    /\ UNCHANGED <<points_with_headings, steps, google_turns, all_turns, otherThanTurn>>

\* generate_frames 1183-1214
ExtractTurns ==
    /\ tstage = "start"
    /\ google_turns' = GoogleTurns(steps, points_with_headings)
    /\ \E found \in {detect_all_turns_from_path(points_with_headings)} :
         detected_turns' = [k \in DOMAIN found |->
                               WithTurnIndex(found[k], points_with_headings)]
    /\ all_turns' = merge_turns(google_turns', detected_turns')
    /\ tstage' = "merged"
    /\ UNCHANGED <<points_with_headings, steps, otherThanTurn>>

DetectNext == DetectTurns

RouteNext == ExtractTurns

----
(* Frame interpolation: OpticalFlowInterpolator.process_frame_sequence and     *)
(* create_interpolated_frames_data, as interpolate_frames calls them.          *)
(* A path is a record naming the image: a source frame's own file, or the      *)
(* file "(smooth_)interpolated_<base_idx>_<step>.jpg" of a synthesized image.  *)
(* A heading is a whole number of degrees; None (-1) is an absent              *)
(* smoothedHeading.  An interpolated heading is the exact rational num / den.  *)


\* The source frames interpolate_frames passes on: their files exist (1345),
\* which does not make them readable images.
FrameKinds ==
    { [heading |-> 350, smoothedHeading |-> None, readable |-> TRUE],
      [heading |-> 10,  smoothedHeading |-> None, readable |-> TRUE],
      [heading |-> 190, smoothedHeading |-> 0,    readable |-> TRUE],
      [heading |-> 10,  smoothedHeading |-> 200,  readable |-> TRUE],
      [heading |-> 10,  smoothedHeading |-> None, readable |-> FALSE] }

SourcePath(i) == [kind |-> "source", frame |-> i, step |-> 0]
InterpolatedPath(base_idx, step) == [kind |-> "interpolated", frame |-> base_idx, step |-> step]

\* the steps i of "for i in range(1, interpolation_factor + 1)" (line 86)
StepsShort(k) == 1..(k - 1)

StepsOf(k) == 1..k

RECURSIVE PathsOfSteps(_, _, _, _)
PathsOfSteps(base_idx, step, k, failed) ==
    IF step \notin StepsOf(k) THEN <<>>
    ELSE (IF <<base_idx, step>> \in failed THEN <<>>
          ELSE <<InterpolatedPath(base_idx, step)>>)
         \o PathsOfSteps(base_idx, step + 1, k, failed)

\* interpolate_between_frames (65-113): nothing when an image cannot be loaded,
\* else the paths of the images that were saved
interpolate_between_frames(frames, base_idx, k, failed) ==
    IF ~frames[base_idx].readable \/ ~frames[base_idx + 1].readable THEN <<>>
    ELSE PathsOfSteps(base_idx, 1, k, failed)

\* process_frame_sequence (115-137); frames are numbered from 1 here
RECURSIVE process_frame_sequence(_, _, _, _)
process_frame_sequence(frames, i, k, failed) ==
    IF i >= Len(frames) THEN <<SourcePath(Len(frames))>>
    ELSE <<SourcePath(i)>> \o interpolate_between_frames(frames, i, k, failed)
         \o process_frame_sequence(frames, i + 1, k, failed)

\* lines 212-213: "smoothedHeading or heading"
SourceHeading(frame) ==
    IF frame.smoothedHeading = None \/ frame.smoothedHeading = 0
    THEN frame.heading
    ELSE frame.smoothedHeading

NaiveDiff(heading1, heading2) == heading2 - heading1

\* line 218
AngleDiff(heading1, heading2) == ((heading2 - heading1 + 180) % 360) - 180

\* line 219 with t = (j + 1) / (k + 1): the heading as a fraction of degrees
InterpHeading(heading1, heading2, j, k) ==
    [num |-> (heading1 * (k + 1) + AngleDiff(heading1, heading2) * (j + 1)) % (360 * (k + 1)),
     den |-> k + 1]

SourceRecord(frames, i) ==
    [interpolated |-> FALSE, filename |-> SourcePath(i), frame |-> i, step |-> 0,
     heading |-> frames[i].heading,
     smoothedHeading |-> [num |-> frames[i].smoothedHeading, den |-> 1]]

\* lines 221-228; path_idx is the Python index, paths[path_idx] is Python's
\* interpolated_paths[path_idx - 1]
InterpolatedRecord(frames, paths, path_idx, i, j, k) ==
    [interpolated |-> TRUE, filename |-> paths[path_idx], frame |-> i, step |-> j + 1,
     heading |-> frames[i].heading,
     smoothedHeading |-> InterpHeading(SourceHeading(frames[i]), SourceHeading(frames[i + 1]), j, k)]

\* the loop "for j in range(interpolation_factor)" (205-231)
RECURSIVE InnerLoop(_, _, _, _, _, _)
InnerLoop(acc, frames, paths, i, j, k) ==
    IF j >= k THEN acc
    ELSE InnerLoop(
            [combined |-> IF acc.path_idx < Len(paths)
                          THEN Append(acc.combined,
                                      InterpolatedRecord(frames, paths, acc.path_idx, i, j, k))
                          ELSE acc.combined,
             path_idx |-> acc.path_idx + 1],
            frames, paths, i, j + 1, k)

\* the loop "for i in range(len(original_frames_data) - 1)" (201-231)
RECURSIVE OuterLoop(_, _, _, _, _)
OuterLoop(acc, frames, paths, i, k) ==
    IF i >= Len(frames) THEN acc
    ELSE OuterLoop(
            InnerLoop([combined |-> Append(acc.combined, SourceRecord(frames, i)),
                       path_idx |-> acc.path_idx + 1],
                      frames, paths, i, 0, k),
            frames, paths, i + 1, k)

create_interpolated_frames_data(frames, paths, k) ==
    Append(OuterLoop([combined |-> <<>>, path_idx |-> 0], frames, paths, 1, k).combined,
           SourceRecord(frames, Len(frames)))

RECURSIVE SeqsOfLen(_, _)
SeqsOfLen(S, n) ==
    IF n = 0 THEN {<<>>}
    ELSE { Append(s, x) : s \in SeqsOfLen(S, n - 1), x \in S }

\* a frame of the request: a frame whose file exists, or one without a file
ReqFrameKinds ==
    { [heading |-> f.heading, smoothedHeading |-> f.smoothedHeading,
       readable |-> f.readable, exists |-> TRUE] : f \in FrameKinds }
    \cup { [heading |-> 10, smoothedHeading |-> None, readable |-> FALSE,
            exists |-> FALSE] }

\* line 1345: the frames whose file exists, in their order
RECURSIVE ValidFrames(_)
ValidFrames(frames) ==
    IF frames = <<>> THEN <<>>
    ELSE (IF Head(frames).exists THEN <<Head(frames)>> ELSE <<>>)
         \o ValidFrames(Tail(frames))

EnoughWithOne(frames) == Len(frames) >= 1

\* the test of lines 1336 and 1347, negated
Enough(frames) == Len(frames) >= 2

\* lines 1336-1348: the error the request is answered with, or "" to go on
InterpolateAbort(frames, dir_found) ==
    IF ~Enough(frames) THEN "Need at least 2 frames"
    ELSE IF ~dir_found THEN "Route directory not found"
    ELSE IF ~Enough(ValidFrames(frames)) THEN "Need at least 2 valid frames"
    ELSE ""

InterpInit ==
    /\ req_frames \in UNION { SeqsOfLen(ReqFrameKinds, n) : n \in 0..MaxSources }
    /\ route_dir_found \in BOOLEAN
    /\ interpolation_factor \in 0..MaxFactor
    /\ istage = "called"
    /\ src_frames = <<>>
    /\ all_frames = <<>>
    /\ failed_writes = {}
    /\ combined_frames = <<>>
    /\ iresult = "none"
    /\ frames_data_json = FALSE

InterpIdle ==
    /\ req_frames = <<>>
    /\ route_dir_found = FALSE
    /\ iresult = "none"
    /\ frames_data_json = FALSE
    /\ src_frames = <<>>
    /\ interpolation_factor = 0
    /\ istage = "idle"
    /\ all_frames = <<>>
    /\ failed_writes = {}
    /\ combined_frames = <<>>

\* the images process_frame_sequence tries to save
Writes == { <<i, step>> \in (1..(Len(src_frames) - 1)) \X StepsOf(interpolation_factor) :
              src_frames[i].readable /\ src_frames[i + 1].readable }

\* interpolate_frames 1336-1353
FilterFrames ==
    /\ istage = "called"
    /\ IF InterpolateAbort(req_frames, route_dir_found) # ""
       THEN /\ iresult' = "error"
            /\ istage' = "returned"
            /\ UNCHANGED src_frames
       ELSE /\ src_frames' = ValidFrames(req_frames)
            /\ istage' = "start"
            /\ UNCHANGED iresult
    /\ UNCHANGED <<req_frames, route_dir_found, interpolation_factor, all_frames,
                   failed_writes, combined_frames, frames_data_json, otherThanInterp>>

\* interpolate_frames 1356-1357
ProcessFrameSequence ==
    /\ istage = "start"
    /\ \E failed \in { F \in SUBSET Writes : Cardinality(F) <= MaxWriteFailures } :
          /\ failed_writes' = failed
          /\ all_frames' = process_frame_sequence(src_frames, 1, interpolation_factor, failed)
    /\ istage' = "processed"
    /\ UNCHANGED <<src_frames, interpolation_factor, combined_frames, req_frames,
                   route_dir_found, iresult, frames_data_json, otherThanInterp>>

\* interpolate_frames 1359-1363
CreateInterpolatedFramesData ==
    /\ istage = "processed"
    /\ combined_frames' =
          create_interpolated_frames_data(src_frames, all_frames, interpolation_factor)
    /\ istage' = "combined"
    /\ UNCHANGED <<src_frames, interpolation_factor, all_frames, failed_writes,
                   req_frames, route_dir_found, iresult, frames_data_json,
                   otherThanInterp>>

\* interpolate_frames 1365-1410: overlays, frames_data.json, the success result
SaveFramesData ==
    /\ istage = "combined"
    /\ frames_data_json' = TRUE
    /\ iresult' = "success"
    /\ istage' = "returned"
    /\ UNCHANGED <<src_frames, interpolation_factor, all_frames, failed_writes,
                   combined_frames, req_frames, route_dir_found, otherThanInterp>>

\* interpolate_frames 1412-1416: an exception inside the try block
InterpolationError ==
    /\ istage \in {"start", "processed", "combined"}
    /\ iresult' = "failed"
    /\ istage' = "returned"
    /\ UNCHANGED <<src_frames, interpolation_factor, all_frames, failed_writes,
                   combined_frames, req_frames, route_dir_found, frames_data_json,
                   otherThanInterp>>

InterpNext ==
    \/ FilterFrames
    \/ ProcessFrameSequence
    \/ CreateInterpolatedFramesData
    \/ SaveFramesData
    \/ InterpolationError


----------------------------------------------------------------------------
(* process_complete_pipeline: the four stage calls and the tests made on     *)
(* their results.  A frame carries what the stages read and change: its      *)
(* heading, its smoothedHeading, its image file, and the alert fields; an    *)
(* absent alert is "", an absent alertDistance None, an absent priority 0.   *)

NoPipeAlert == [alert |-> "", alertType |-> "", alertDistance |-> None, priority |-> 0]

\* the first alert of a frame as generate_frame_alerts builds it (709-715, 742-749)
PipeAlerts ==
    { NoPipeAlert,
      [alert |-> "Turn Left in 75m", alertType |-> "turn", alertDistance |-> 75,
       priority |-> 1],
      [alert |-> "Park: A in 120m", alertType |-> "landmark", alertDistance |-> 120,
       priority |-> 2] }

\* generate_frames 1241-1255: the frame_dict, updated with the alert
PipeFrame(i, a) ==
    [heading |-> 10 * i, smoothedHeading |-> None, readable |-> TRUE,
     exists |-> TRUE, filename |-> "frame", interpolated |-> FALSE,
     alert |-> a.alert, alertType |-> a.alertType, alertDistance |-> a.alertDistance,
     priority |-> a.priority]

\* generate_frames 1144-1272: an error for a directions status other than OK,
\* else the frames whose image was fetched, alerts being their first alerts
generate_frames(status, alerts) ==
    IF status # "OK"
    THEN [error |-> status, frames |-> <<>>]
    ELSE [error |-> "", frames |-> [i \in DOMAIN alerts |-> PipeFrame(i, alerts[i])]]

FrameWithoutAlert(fields) ==
    [heading |-> fields.heading, smoothedHeading |-> fields.smoothedHeading,
     readable |-> fields.readable, exists |-> fields.exists,
     filename |-> fields.filename, interpolated |-> fields.interpolated,
     alert |-> "", alertType |-> "", alertDistance |-> None]

\* Frame(**frame_dict), lines 105-116 and 1427: the declared fields are kept,
\* the other keys (priority) are dropped
FrameOf(fields) ==
    [heading |-> fields.heading, smoothedHeading |-> fields.smoothedHeading,
     readable |-> fields.readable, exists |-> fields.exists,
     filename |-> fields.filename, interpolated |-> fields.interpolated,
     alert |-> fields.alert, alertType |-> fields.alertType,
     alertDistance |-> fields.alertDistance]

\* line 1427
FramesOf(frame_dicts) == [i \in DOMAIN frame_dicts |-> FrameOf(frame_dicts[i])]

\* smooth 1274-1288; sm is the answer of smooth_headings
smooth(frames, sm) ==
    IF frames = <<>>
    THEN [smoothed |-> FALSE, frames |-> <<>>]
    ELSE [smoothed |-> TRUE,
          frames |-> [i \in DOMAIN frames |->
                        [frames[i] EXCEPT !.smoothedHeading = sm[i]]]]

\* regenerate_frames 1290-1331; fetched are the frames whose new image arrived
regenerate_frames(frames, fetched) ==
    IF frames = <<>>
    THEN [error |-> "No frames provided", frames |-> <<>>, success |-> FALSE]
    ELSE IF \A i \in DOMAIN frames : frames[i].smoothedHeading = None
    THEN [error |-> "No smoothed headings found", frames |-> frames, success |-> FALSE]
    ELSE [error |-> "", success |-> TRUE,
          frames |-> [i \in DOMAIN frames |->
                        IF frames[i].smoothedHeading # None /\ i \in fetched
                        THEN [frames[i] EXCEPT !.filename = "smoothed_frame"]
                        ELSE frames[i]]]

\* lines 202, 221-228, 1392: a record of combined_frames_data as a Frame; the
\* record of a source frame is the frame's own dict, an interpolated record
\* has no alert key
FinalFrame(valid_frames, r) ==
    IF r.interpolated
    THEN [interpolated |-> TRUE, filename |-> r.filename, alert |-> "",
          alertType |-> "", alertDistance |-> None]
    ELSE [interpolated |-> FALSE, filename |-> r.filename,
          alert |-> valid_frames[r.frame].alert,
          alertType |-> valid_frames[r.frame].alertType,
          alertDistance |-> valid_frames[r.frame].alertDistance]

\* lines 1355-1392: the frames of the result, every image being saved
FinalFrames(valid_frames, k) ==
    LET paths == process_frame_sequence(valid_frames, 1, k, {})
        combined == create_interpolated_frames_data(valid_frames, paths, k)
    IN  [x \in DOMAIN combined |-> FinalFrame(valid_frames, combined[x])]

\* interpolate_frames 1333-1416, by its result
interpolate_frames(frames, dir_found, raised, k) ==
    IF InterpolateAbort(frames, dir_found) # ""
    THEN [error |-> InterpolateAbort(frames, dir_found), success |-> FALSE,
          frames |-> frames]
    ELSE IF raised THEN [error |-> "Exception", success |-> FALSE, frames |-> frames]
    ELSE [error |-> "", success |-> TRUE, frames |-> FinalFrames(ValidFrames(frames), k)]

\* line 1424
GenFailed(gen_result) == gen_result.error # ""

SmoothFailureIgnored(smooth_result) == FALSE

\* line 1431
SmoothFailed(smooth_result) == ~smooth_result.smoothed

\* line 1436
RegenFailed(regen_result) == ~regen_result.success

\* line 1445
InterpFailed(interp_result) == ~interp_result.success

\* the answers of smooth_headings: degrees in [-180, 180)
SmoothedChoices == {-170, 0, 15}

StageCall(stage, input, outcome, output) ==
    [stage |-> stage, input |-> input, outcome |-> outcome, output |-> output]

PipeInit ==
    /\ pstage = "called"
    /\ stages_run = <<>>
    /\ pipe_frames = <<>>
    /\ presult = "none"

PipeIdle ==
    /\ pstage = "idle"
    /\ stages_run = <<>>
    /\ pipe_frames = <<>>
    /\ presult = "none"

\* the except clause of lines 1467-1471, for a stage that raised
PipeRaised(stage) ==
    /\ stages_run' = Append(stages_run, StageCall(stage, pipe_frames, "raised", <<>>))
    /\ presult' = "exception"
    /\ pstage' = "returned"
    /\ UNCHANGED pipe_frames

\* lines 1422-1427
PipeGenerate ==
    /\ pstage = "called"
    /\ \/ PipeRaised("generate_frames")
       \/ \E status \in {"OK", "ZERO_RESULTS"},
             alerts \in UNION { [1..n -> PipeAlerts] : n \in 0..MaxPipeFrames } :
            \E gen_result \in {generate_frames(status, alerts)} :
              IF GenFailed(gen_result)
              THEN /\ stages_run' = Append(stages_run,
                          StageCall("generate_frames", <<>>, "failed", <<>>))
                   /\ presult' = "error"
                   /\ pstage' = "returned"
                   /\ UNCHANGED pipe_frames
              ELSE /\ stages_run' = Append(stages_run,
                          StageCall("generate_frames", <<>>, "ok", gen_result.frames))
                   /\ pipe_frames' = FramesOf(gen_result.frames)
                   /\ pstage' = "generated"
                   /\ UNCHANGED presult
    /\ UNCHANGED otherThanPipe

\* lines 1429-1432
PipeSmooth ==
    /\ pstage = "generated"
    /\ \/ PipeRaised("smooth")
       \/ \E h \in SmoothedChoices :
            \E smooth_result \in {smooth(pipe_frames, [i \in DOMAIN pipe_frames |-> h])} :
              IF SmoothFailed(smooth_result)
              THEN /\ stages_run' = Append(stages_run,
                          StageCall("smooth", pipe_frames, "failed", smooth_result.frames))
                   /\ presult' = "error"
                   /\ pstage' = "returned"
                   /\ UNCHANGED pipe_frames
              ELSE /\ stages_run' = Append(stages_run,
                          StageCall("smooth", pipe_frames,
                                    IF smooth_result.smoothed THEN "ok" ELSE "failed",
                                    smooth_result.frames))
                   /\ pipe_frames' = smooth_result.frames
                   /\ pstage' = "smoothed"
                   /\ UNCHANGED presult
    /\ UNCHANGED otherThanPipe

\* lines 1434-1437
PipeRegenerate ==
    /\ pstage = "smoothed"
    /\ \E fetched \in SUBSET DOMAIN pipe_frames :
         \E regen_result \in {regenerate_frames(pipe_frames, fetched)} :
           IF RegenFailed(regen_result)
           THEN /\ stages_run' = Append(stages_run,
                       StageCall("regenerate_frames", pipe_frames, "failed",
                                 regen_result.frames))
                /\ presult' = "error"
                /\ pstage' = "returned"
                /\ UNCHANGED pipe_frames
           ELSE /\ stages_run' = Append(stages_run,
                       StageCall("regenerate_frames", pipe_frames, "ok",
                                 regen_result.frames))
                /\ pipe_frames' = regen_result.frames
                /\ pstage' = "regenerated"
                /\ UNCHANGED presult
    /\ UNCHANGED otherThanPipe

\* lines 1439-1465
PipeInterpolate ==
    /\ pstage = "regenerated"
    /\ \E dir_found \in BOOLEAN, raised \in BOOLEAN, k \in 0..MaxFactor :
         \E interp_result \in {interpolate_frames(pipe_frames, dir_found, raised, k)} :
           IF InterpFailed(interp_result)
           THEN /\ stages_run' = Append(stages_run,
                       StageCall("interpolate_frames", pipe_frames, "failed", <<>>))
                /\ presult' = "error"
           ELSE /\ stages_run' = Append(stages_run,
                       StageCall("interpolate_frames", pipe_frames, "ok",
                                 interp_result.frames))
                /\ presult' = "pipeline_success"
    /\ pstage' = "returned"
    /\ UNCHANGED <<pipe_frames, otherThanPipe>>

PipeNext == PipeGenerate \/ PipeSmooth \/ PipeRegenerate \/ PipeInterpolate

----------------------------------------------------------------------------
(* The rate limiter of get_nearby_landmarks.  Time is counted in tenths of   *)
(* a second.  A caller is a request handler running generate_frames; the     *)
(* handlers are plain functions that the server runs on worker threads, and  *)
(* LAST_PLACES_API_CALL is a module global read and written without a lock.  *)

PLACES_API_DELAY == 2

Callers == 1..MaxCallers

RateInit ==
    /\ now = PLACES_API_DELAY
    /\ LAST_PLACES_API_CALL = 0
    /\ rpc = [c \in Callers |-> "idle"]
    /\ wake_at = [c \in Callers |-> 0]
    /\ sent = <<>>

RateIdle ==
    /\ now = 0
    /\ LAST_PLACES_API_CALL = 0
    /\ rpc = <<>>
    /\ wake_at = <<>>
    /\ sent = <<>>

\* lines 602-605: read the clock and the global, sleep for what is missing
CheckRate(c) ==
    /\ rpc[c] = "idle"
    /\ Len(sent) < MaxRequests
    /\ LET time_since_last_call == now - LAST_PLACES_API_CALL
       IN  IF time_since_last_call < PLACES_API_DELAY
           THEN /\ rpc' = [rpc EXCEPT ![c] = "sleeping"]
                /\ wake_at' = [wake_at EXCEPT ![c] = now + (PLACES_API_DELAY - time_since_last_call)]
           ELSE /\ rpc' = [rpc EXCEPT ![c] = "ready"]
                /\ UNCHANGED wake_at
    /\ UNCHANGED <<now, LAST_PLACES_API_CALL, sent, otherThanRate>>

\* line 605: time.sleep returns, not before its time
Wake(c) ==
    /\ rpc[c] = "sleeping"
    /\ now >= wake_at[c]
    /\ rpc' = [rpc EXCEPT ![c] = "ready"]
    /\ UNCHANGED <<now, LAST_PLACES_API_CALL, wake_at, sent, otherThanRate>>

\* line 631: requests.post sends the request
Post(c) ==
    /\ rpc[c] = "ready"
    /\ sent' = Append(sent, now)
    /\ rpc' = [rpc EXCEPT ![c] = "posting"]
    /\ UNCHANGED <<now, LAST_PLACES_API_CALL, wake_at, otherThanRate>>

\* lines 631-632: the response arrives and the global is set
Respond(c) ==
    /\ rpc[c] = "posting"
    /\ LAST_PLACES_API_CALL' = now
    /\ rpc' = [rpc EXCEPT ![c] = "idle"]
    /\ UNCHANGED <<now, wake_at, sent, otherThanRate>>

\* lines 631, 675-680: requests.post raises and line 632 is not reached
PostRaises(c) ==
    /\ rpc[c] = "posting"
    /\ rpc' = [rpc EXCEPT ![c] = "idle"]
    /\ UNCHANGED <<now, LAST_PLACES_API_CALL, wake_at, sent, otherThanRate>>

\* a tenth of a second passes
Tick ==
    /\ rpc # <<>>
    /\ now < MaxTime
    /\ now' = now + 1
    /\ UNCHANGED <<LAST_PLACES_API_CALL, rpc, wake_at, sent, otherThanRate>>

RateNext ==
    \/ \E c \in Callers : CheckRate(c)
    \/ \E c \in Callers : Wake(c)
    \/ \E c \in Callers : Post(c)
    \/ \E c \in Callers : Respond(c)
    \/ \E c \in Callers : PostRaises(c)
    \/ Tick

----------------------------------------------------------------------------
(* The frame selection of generate_video, after a run of interpolate_frames  *)
(* in which every image was read and saved.  A file is its directory, the    *)
(* words of its name before the number ("smooth_interpolated_0_1.jpg" is     *)
(* <<"smooth", "interpolated">>) and the number that the sort key of line    *)
(* 1498 makes of the digits of its name.                                     *)

SelFrameKinds ==
    { [heading |-> 10, smoothedHeading |-> 15, readable |-> TRUE, exists |-> TRUE,
       filename |-> f, alert |-> a.alert, alertType |-> a.alertType] :
         f \in {"frame", "smoothed_frame"},
         a \in {NoAlert, [alert |-> "text", alertType |-> "turn"]} }

\* generate_frames 1227 and regenerate_frames 1306: the file of source frame i
SourceFile(frames, i) ==
    IF frames[i].filename = "smoothed_frame"
    THEN [dir |-> "smoothed", name |-> <<"smoothed", "frame">>, digits |-> i]
    ELSE [dir |-> "route", name |-> <<"frame">>, digits |-> i]

\* interpolate_between_frames 95-104: the file of step i between the frames
\* b and b + 1, whose base_idx is b - 1; the digits "<base_idx><i>" read as
\* one number
SynthesizedFile(frames, b, step) ==
    [dir |-> "interpolated",
     name |-> IF frames[b].filename = "smoothed_frame"
                 \/ frames[b + 1].filename = "smoothed_frame"
              THEN <<"smooth", "interpolated">>
              ELSE <<"interpolated">>,
     digits |-> (b - 1) * 10 + step]

FileOf(frames, path) ==
    IF path.kind = "source" THEN SourceFile(frames, path.frame)
    ELSE SynthesizedFile(frames, path.frame, path.step)

\* the image files of the route after generate_frames, regenerate_frames and
\* interpolate_frames
Disk(frames, k) ==
    { [dir |-> "route", name |-> <<"frame">>, digits |-> i] : i \in DOMAIN frames }
    \cup { FileOf(frames, p) : p \in Range(process_frame_sequence(frames, 1, k, {})) }

\* interpolate_frames 1358-1390: the records written to frames_data.json
JsonRecords(frames, k) ==
    LET combined == create_interpolated_frames_data(
                        frames, process_frame_sequence(frames, 1, k, {}), k)
    IN  [x \in DOMAIN combined |->
            [filename |-> FileOf(frames, combined[x].filename),
             interpolated |-> combined[x].interpolated,
             alert |-> IF combined[x].interpolated THEN ""
                       ELSE frames[combined[x].frame].alert,
             alertType |-> IF combined[x].interpolated THEN ""
                           ELSE frames[combined[x].frame].alertType]]

\* line 1488: the directories looked into, in this order
frame_dirs == <<"interpolated", "smoothed", "route">>

\* line 1496: "interpolated_*.jpg", "smoothed_*.jpg", "frame_*.jpg"
patterns == <<"interpolated", "smoothed", "frame">>

\* Path.glob: the name begins with the word of the pattern and "_"
Matches(file, pattern) == file.name[1] = pattern

\* line 1498: sorted by the number made of the digits of the name
RECURSIVE SortedByDigits(_)
SortedByDigits(files) ==
    IF files = {} THEN <<>>
    ELSE LET f == CHOOSE x \in files : \A y \in files : x.digits <= y.digits
         IN  <<f>> \o SortedByDigits(files \ {f})

Found(disk, dir, pattern) ==
    SortedByDigits({ f \in disk : f.dir = dir /\ Matches(f, pattern) })

\* lines 1495-1520: the first pattern of the first directory that finds files
RECURSIVE SelectFrom(_, _, _, _, _)
SelectFrom(disk, json, d, p, none) ==
    IF d > Len(frame_dirs) THEN none
    ELSE IF p > Len(patterns) THEN SelectFrom(disk, json, d + 1, 1, none)
    ELSE LET found == Found(disk, frame_dirs[d], patterns[p])
         IN  IF found # <<>>
             THEN [frame_paths |-> found,
                   frames_data |-> IF frame_dirs[d] = "interpolated" THEN json
                                   ELSE [i \in DOMAIN found |->
                                            [alert |-> "", alertType |-> ""]]]
             ELSE SelectFrom(disk, json, d, p + 1, none)

SelInit ==
    /\ sel_frames \in UNION { SeqsOfLen(SelFrameKinds, n) : n \in 2..MaxSelFrames }
    /\ sel_factor \in 0..MaxFactor
    /\ sel_paths = <<>>
    /\ sel_data = <<>>
    /\ sstage = "interpolated"

SelIdle ==
    /\ sel_frames = <<>>
    /\ sel_factor = 0
    /\ sel_paths = <<>>
    /\ sel_data = <<>>
    /\ sstage = "idle"

\* generate_video 1485-1522
SelectFrames ==
    /\ sstage = "interpolated"
    /\ \E r \in {SelectFrom(Disk(sel_frames, sel_factor),
                            JsonRecords(sel_frames, sel_factor), 1, 1,
                            [frame_paths |-> <<>>, frames_data |-> <<>>])} :
         /\ sel_paths' = r.frame_paths
         /\ sel_data' = r.frames_data
    /\ sstage' = "selected"
    /\ UNCHANGED <<sel_frames, sel_factor, otherThanSel>>

SelNext == SelectFrames

----------------------------------------------------------------------------
(* The specification of an interpolation run *)

InitInterp == AlertIdle /\ InterpInit /\ DurIdle /\ VideoIdle /\ TurnIdle /\ PipeIdle /\ RateIdle /\ SelIdle /\ GenIdle

SpecInterp == InitInterp /\ [][InterpNext]_vars

----------------------------------------------------------------------------
(* The specification of an alert run *)

AlertNext == ScanFrame \/ ScanFrameTwice

InitAlerts == AlertInit /\ InterpIdle /\ DurIdle /\ VideoIdle /\ TurnIdle /\ PipeIdle /\ RateIdle /\ SelIdle /\ GenIdle

SpecAlerts == InitAlerts /\ [][AlertNext]_vars

----------------------------------------------------------------------------
(* The specification of a duration scheduling run *)

InitDur == AlertIdle /\ InterpIdle /\ DurInit /\ VideoIdle /\ TurnIdle /\ PipeIdle /\ RateIdle /\ SelIdle /\ GenIdle

SpecDur == InitDur /\ [][DurNext]_vars

----------------------------------------------------------------------------
(* The specification of a video generation *)

InitVideo == AlertIdle /\ InterpIdle /\ VideoInit /\ ServeInit /\ TurnIdle /\ PipeIdle /\ RateIdle /\ SelIdle /\ GenIdle

SpecVideo == InitVideo /\ [][VideoNext]_vars

InitPipe == AlertIdle /\ InterpIdle /\ DurIdle /\ VideoIdle /\ TurnIdle /\ PipeInit /\ RateIdle /\ SelIdle /\ GenIdle

SpecPipe == InitPipe /\ [][PipeNext]_vars

InitRate == AlertIdle /\ InterpIdle /\ DurIdle /\ VideoIdle /\ TurnIdle /\ PipeIdle /\ RateInit /\ SelIdle /\ GenIdle

SpecRate == InitRate /\ [][RateNext]_vars

InitSel == AlertIdle /\ InterpIdle /\ DurIdle /\ VideoIdle /\ TurnIdle /\ PipeIdle /\ RateIdle /\ SelInit /\ GenIdle

SpecSel == InitSel /\ [][SelNext]_vars

InitGen == AlertIdle /\ InterpIdle /\ VideoInit /\ ServeInit /\ TurnIdle /\ PipeIdle /\ RateIdle /\ SelIdle /\ GenInit

SpecGen == InitGen /\ [][GenNext]_vars

InitServe == AlertIdle /\ InterpIdle /\ VideoInit /\ ServeInit /\ TurnIdle /\ PipeIdle /\ RateIdle /\ SelIdle /\ GenIdle

SpecServe == InitServe /\ [][ServeNext]_vars

----------------------------------------------------------------------------
(* The specifications of turn detection and of turn extraction *)

InitDetect == AlertIdle /\ InterpIdle /\ DurIdle /\ VideoIdle /\ DetectInit /\ PipeIdle /\ RateIdle /\ SelIdle /\ GenIdle

SpecDetect == InitDetect /\ [][DetectNext]_vars

InitRoute == AlertIdle /\ InterpIdle /\ DurIdle /\ VideoIdle /\ RouteInit /\ PipeIdle /\ RateIdle /\ SelIdle /\ GenIdle

SpecRoute == InitRoute /\ [][RouteNext]_vars

----------------------------------------------------------------------------
(* Claims about the alert engine *)

LastFrame == frame_idx - 1
TurnAlertsOf(alerts) == { alerts[i] : i \in { j \in DOMAIN alerts : alerts[j].alertType = "turn" } }
LandmarkAlertsOf(alerts) ==
    { alerts[i] : i \in { j \in DOMAIN alerts : alerts[j].alertType = "landmark" } }

\* C1: a call with frame_index = i emits no turn alert for a turn whose
\* turn_index is <= i, in the first scan of the frame and in a re-scan.
AheadOnlyAlerts ==
    \A a \in TurnAlertsOf(frame_alerts) \cup TurnAlertsOf(rescan_alerts) :
        turns[a.turn].turn_index > LastFrame

\* a frame with a turn at or behind it and an alert for the other turn, ahead
AheadOnlyWitness ==
    /\ frame_idx > 0
    /\ \E t \in DOMAIN turns : turns[t].turn_index <= LastFrame
    /\ TurnAlertsOf(frame_alerts) # {}

\* C2: over the calls of one run no dedup key is emitted twice, and the key of
\* every emitted alert is in previous_alerts from then on.
NoKeyEmittedTwice ==
    \A k \in DOMAIN emit_count : emit_count[k] = 1 /\ k \in previous_alerts

\* a call withheld an alert whose key an earlier call of the run had fired
NoKeyEmittedTwiceWitness ==
    /\ ~rescanned
    /\ \E k \in suppressed :
          /\ k \in DOMAIN emit_count /\ emit_count[k] = 1
          /\ \A i \in DOMAIN frame_alerts : frame_alerts[i].key # k

\* C3: a second call with the same arguments and the state returned by the
\* first returns no alert and leaves previous_alerts and landmark_history as
\* they were.
RescanIdempotent ==
    rescanned =>
        /\ rescan_alerts = <<>>
        /\ previous_alerts = pre_rescan.prev
        /\ landmark_history = pre_rescan.hist

\* the spec's scenario: one turn-left alert at 75 m (bucket 70) for a turn
\* ahead, then the re-scan of the frame
RescanWitness ==
    /\ rescanned
    /\ Len(frame_alerts) = 1
    /\ frame_alerts[1].key = <<"turn", "turn-left", 70>>
    /\ frame_alerts[1].alertDistance = 75
    /\ rescan_alerts = <<>>

\* C4: once a landmark was seen farther than its recorded distance plus the
\* tolerance, no later call of the run emits an alert for it.
PassedLandmarkStaysSilent ==
    [][\A a \in LandmarkAlertsOf(frame_alerts') : a.alertIcon \notin passed]_vars

----------------------------------------------------------------------------
(* Claims about the interpolation *)

NumSources == Len(src_frames)
ExpectedCount == NumSources + (NumSources - 1) * interpolation_factor
SourcePosition(i) == (i - 1) * (interpolation_factor + 1) + 1

PathsComplete ==
    /\ Len(all_frames) = ExpectedCount
    /\ \A i \in 1..NumSources : all_frames[SourcePosition(i)] = SourcePath(i)

RecordsComplete ==
    /\ Len(combined_frames) = ExpectedCount
    /\ \A i \in 1..NumSources :
          combined_frames[SourcePosition(i)] = SourceRecord(src_frames, i)
    /\ \A x \in DOMAIN combined_frames :
          combined_frames[x].interpolated <=> (\A i \in 1..NumSources : x # SourcePosition(i))

\* every source image could be read and every synthesized image was saved
AllSaved ==
    /\ \A i \in DOMAIN src_frames : src_frames[i].readable
    /\ failed_writes = {}

ArcDistance(a, b, den) ==
    LET m == (b - a) % (360 * den) IN Min(m, 360 * den - m)

HeadingOnShorterArc(r) ==
    LET h1 == SourceHeading(src_frames[r.frame])
        h2 == SourceHeading(src_frames[r.frame + 1])
        den == interpolation_factor + 1
        num == r.smoothedHeading.num
    IN  /\ r.smoothedHeading.den = den
        /\ 0 <= num /\ num < 360 * den
        /\ \E d \in -180..180 :
              /\ (h1 + d) % 360 = h2 % 360
              /\ num = (h1 * den + d * r.step) % (360 * den)
        /\ ArcDistance(h1 * den, num, den) + ArcDistance(num, h2 * den, den)
              = ArcDistance(h1 * den, h2 * den, den)
        /\ (h1 = 350 /\ h2 = 10 /\ den = 2) => num = 0

\* C6: the heading of the record for step j between headings h1 and h2 is
\* (h1 + t d) mod 360, t = j/(k+1), d the signed shortest difference from h1 to
\* h2: it is in [0, 360) and on the shorter arc; 350 and 10 at t = 1/2 give 0.
HeadingWrap ==
    \A x \in DOMAIN combined_frames :
        combined_frames[x].interpolated => HeadingOnShorterArc(combined_frames[x])

\* a record interpolated half-way between 350 and 10 degrees
HeadingWrapWitness ==
    \E x \in DOMAIN combined_frames :
        LET r == combined_frames[x]
        IN  /\ r.interpolated
            /\ SourceHeading(src_frames[r.frame]) = 350
            /\ SourceHeading(src_frames[r.frame + 1]) = 10
            /\ interpolation_factor = 1
            /\ r.smoothedHeading.num = 0

----------------------------------------------------------------------------
(* Claims about the duration scheduler *)

Scheduled == dstage = "scheduled"

Frames == DOMAIN frames_data

AlertFramesOf(type) == { j \in Frames : frames_data[j].alertType = type }

\* the frame distance from i to the nearest alert frame of S, INF if S is empty
Nearest(i, S) ==
    IF S = {} THEN INF
    ELSE LET D == { Abs(i - j) : j \in S }
         IN  CHOOSE d \in D : \A e \in D : d <= e

NearestLandmark(i) == Nearest(i, AlertFramesOf("landmark"))
NearestTurn(i) == Nearest(i, AlertFramesOf("turn"))
NearestAlert(i) == Min(NearestLandmark(i), NearestTurn(i))

InWindow(d) == d <= ALERT_SLOWDOWN_FRAMES

Longer(a, b) == a.num * b.den > b.num * a.den
SameDuration(a, b) == a.num * b.den = b.num * a.den
IsBase(a) == a.num * fps = a.den

\* the kind of alert that sets the duration of frame i
Governing(i) ==
    IF InWindow(NearestLandmark(i)) THEN "landmark"
    ELSE IF InWindow(NearestTurn(i)) THEN "turn" ELSE "none"

GoverningDistance(i) ==
    IF Governing(i) = "landmark" THEN NearestLandmark(i) ELSE NearestTurn(i)

BaseOutsideWindow ==
    \A i \in Frames : ~InWindow(NearestAlert(i)) => IsBase(frame_durations[i])

\* for each frame the kind that governs it and the distance to that kind
RECURSIVE GoverningOfFrames(_)
GoverningOfFrames(n) ==
    IF n = 0 THEN <<>>
    ELSE Append(GoverningOfFrames(n - 1),
                [kind |-> Governing(n), distance |-> GoverningDistance(n),
                 nearest |-> NearestAlert(n)])

\* C7 as stated: within the slow-down window the duration moves strictly
\* towards the base duration as the distance to the nearest alert frame grows
\* (frames at different distances never share a duration), and outside the
\* window it is the base duration.
StrictDecay ==
    Scheduled /\ Len(frame_durations) = Len(frames_data) =>
        /\ LET g == GoverningOfFrames(Len(frames_data))
           IN  \A i, j \in Frames :
                  InWindow(g[j].nearest) /\ g[i].nearest < g[j].nearest
                      => Longer(frame_durations[i], frame_durations[j])
        /\ BaseOutsideWindow

\* C7 amended: among the frames whose duration is set by the same kind of
\* alert (landmark when a landmark alert frame is within the window, else
\* turn), a frame farther from the nearest alert frame of that kind never has
\* a longer duration than a nearer one, every such duration is longer than
\* the base duration, and outside the window it is the base duration.
BandedDecay ==
    Scheduled /\ Len(frame_durations) = Len(frames_data) =>
        /\ LET g == GoverningOfFrames(Len(frames_data))
           IN  \A i, j \in Frames :
                  /\ g[i].kind # "none"
                  /\ g[i].kind = g[j].kind
                  /\ g[i].distance < g[j].distance
                  => /\ ~Longer(frame_durations[j], frame_durations[i])
                     /\ Longer(frame_durations[j], BaseDuration(fps))
                     /\ Longer(frame_durations[i], BaseDuration(fps))
        /\ BaseOutsideWindow

\* a turn alert on the first frame: the frames 1 and 2 frames from it share a
\* band, the frame 4 frames from it is in a farther band, and the frame 41
\* frames from it is outside the window
BandedDecayWitness ==
    /\ Scheduled
    /\ Len(frames_data) > ALERT_SLOWDOWN_FRAMES + 1
    /\ AlertFramesOf("turn") = {1}
    /\ AlertFramesOf("landmark") \cap Window(1) = {}
    /\ SameDuration(frame_durations[2], frame_durations[3])
    /\ Longer(frame_durations[3], frame_durations[5])
    /\ Longer(frame_durations[5], BaseDuration(fps))
    /\ IsBase(frame_durations[ALERT_SLOWDOWN_FRAMES + 2])

\* C8: one duration per frame; a frame with no turn or landmark alert frame
\* within 40 frames gets the base duration; without alerts all frames do.
BaseWithoutAlertNearby ==
    Scheduled =>
        /\ Len(frame_durations) = Len(frames_data)
        /\ \A i \in Frames :
              (\A j \in Frames : frames_data[j].alertType \in {"turn", "landmark"}
                                    => Abs(i - j) > ALERT_SLOWDOWN_FRAMES)
                  => frame_durations[i] = [num |-> 1, den |-> fps]

\* alerts exist, one frame is exactly 41 frames from the only alert frame in
\* reach and plays at base speed, another is 40 frames from it and does not
BaseWithoutAlertNearbyWitness ==
    /\ Scheduled
    /\ AlertFramesOf("turn") \cup AlertFramesOf("landmark") # {}
    /\ \E i, j \in Frames :
          /\ NearestAlert(i) = ALERT_SLOWDOWN_FRAMES + 1
          /\ IsBase(frame_durations[i])
          /\ NearestAlert(j) = ALERT_SLOWDOWN_FRAMES
          /\ ~IsBase(frame_durations[j])

\* the speed, per mille of normal speed, of a frame d frames from a landmark
LandmarkSpeedTable(d) ==
    IF d = 0 THEN 20 ELSE IF d <= 5 THEN 118 ELSE IF d <= 10 THEN 314
    ELSE IF d <= 20 THEN 510 ELSE 706

\* C9: with a landmark alert frame and a turn alert frame both in the window,
\* the duration is the landmark band of the distance to the nearest landmark
\* alert frame, whatever the distance to the turn.
LandmarkPriority ==
    Scheduled =>
        \A i \in Frames :
            InWindow(NearestLandmark(i)) /\ InWindow(NearestTurn(i))
                => frame_durations[i].num * fps * LandmarkSpeedTable(NearestLandmark(i))
                       = 1000 * frame_durations[i].den

\* a frame nearer to the turn than to the landmark, both in the window
LandmarkPriorityWitness ==
    /\ Scheduled
    /\ \E i \in Frames :
          /\ InWindow(NearestLandmark(i))
          /\ NearestTurn(i) < NearestLandmark(i)
          /\ NearestLandmark(i) > 20

----------------------------------------------------------------------------
(* Claims about the video writer *)

\* the integer nearest to p / q, the even one of two equally near
NearestInteger(p, q) ==
    CHOOSE n \in 0..(p \div q + 1) :
        \/ 2 * Abs(p - n * q) < q
        \/ 2 * Abs(p - n * q) = q /\ n % 2 = 0

\* max(1, round(duration_i * fps)), the duration being the base duration for
\* a frame beyond the scheduled ones
ExpectedRepeats(i) ==
    LET d == IF i \in DOMAIN frame_durations THEN frame_durations[i]
             ELSE [num |-> 1, den |-> fps]
        n == NearestInteger(d.num * fps, d.den)
    IN  IF n < 1 THEN 1 ELSE n

RECURSIVE ExpectedWritten(_)
ExpectedWritten(n) ==
    IF n = 0 THEN <<>>
    ELSE ExpectedWritten(n - 1) \o
             (IF frame_paths[n].readable THEN [k \in 1..ExpectedRepeats(n) |-> n]
              ELSE <<>>)

\* C10: every readable frame is written max(1, round(duration * fps)) times,
\* consecutively and in input order, and total_written_frames is the sum.
RepeatCounts ==
    vstage \in {"writing", "returned"} =>
        /\ written = ExpectedWritten(next_frame - 1)
        /\ total_written_frames = Len(written)
        /\ vstage = "returned" => next_frame = Len(frame_paths) + 1

\* a returned video with an unreadable frame skipped, a frame written once,
\* and a frame written several times because its duration rounds up
RepeatCountsWitness ==
    /\ vstage = "returned"
    /\ \E i, j, k \in DOMAIN frame_paths :
          /\ ~frame_paths[i].readable
          /\ frame_paths[j].readable /\ ExpectedRepeats(j) > 1
          /\ frame_paths[k].readable /\ k > Len(frame_durations)
    /\ total_written_frames > Len(frame_paths)

\* the places of the quality's codec list whose writer opens on the .mp4 path
OpeningPlaces ==
    { k \in DOMAIN codec_list(quality) : <<".mp4", codec_list(quality)[k]>> \in openable }

\* C11: the first codec of the quality's list that opens is used; only when
\* none opens the output becomes .avi with XVID; when that does not open
\* either the call fails and no frame is written.
CodecFallback ==
    vstage \in {"writing", "returned", "RuntimeError"} =>
        IF OpeningPlaces # {}
        THEN /\ vstage # "RuntimeError"
             /\ output_path = ".mp4"
             /\ \E k \in OpeningPlaces :
                   /\ out = codec_list(quality)[k]
                   /\ \A l \in OpeningPlaces : k <= l
        ELSE IF <<".avi", "XVID">> \in openable
        THEN vstage # "RuntimeError" /\ output_path = ".avi" /\ out = "XVID"
        ELSE vstage = "RuntimeError" /\ written = <<>> /\ total_written_frames = 0

\* high quality, mp4v does not open, XVID and MJPG do: XVID is used
CodecFallbackWitness ==
    /\ vstage = "returned"
    /\ quality = "high"
    /\ <<".mp4", "mp4v">> \notin openable
    /\ <<".mp4", "XVID">> \in openable
    /\ <<".mp4", "MJPG">> \in openable
    /\ out = "XVID"
    /\ written # <<>>

\* every codec fails on .mp4 and the .avi fallback opens
AviFallbackReached ==
    /\ vstage = "returned"
    /\ OpeningPlaces = {}
    /\ output_path = ".avi"
    /\ written # <<>>

ReadableFrames == { i \in DOMAIN frame_paths : frame_paths[i].readable }

WrittenFrames == { written[k] : k \in DOMAIN written }

\* C12: an unreadable frame at any position is skipped, the readable frames
\* are all written, and the call is not aborted because of it.
UnreadableFrameSkipped ==
    /\ vstage = "ValueError" => frame_paths = <<>>
    /\ vstage = "returned" => WrittenFrames = ReadableFrames

----------------------------------------------------------------------------
(* Claims about turn detection and turn extraction *)

\* the shorter of the two arcs between two headings
ShortestArc(a, b) == Min((b - a) % 360, (a - b) % 360)

SampleHeading(i) == points_with_headings[i + 1].heading

\* the indexes i in 0..n-W-1 whose heading change over the window is >= 20
Qualifying ==
    { i \in 0..(Len(points_with_headings) - TURN_DETECTION_WINDOW - 1) :
        ShortestArc(SampleHeading(i), SampleHeading(i + TURN_DETECTION_WINDOW)) >= 20 }

\* the k-th qualifying index, in increasing order
QualifyingAt(k) ==
    CHOOSE i \in Qualifying : Cardinality({ j \in Qualifying : j < i }) = k - 1

\* C13: one detected turn per qualifying index, located at that sample, in
\* increasing order of the index, and nothing for any other index.
OneTurnPerQualifyingIndex ==
    tstage = "detected" =>
        /\ Len(detected_turns) = Cardinality(Qualifying)
        /\ \A k \in DOMAIN detected_turns :
              /\ detected_turns[k].start_location
                     = Location(points_with_headings[QualifyingAt(k) + 1])
              /\ detected_turns[k].source = "detected"

\* two adjacent indexes qualify, one across the 0/360 wrap and both with a
\* change of exactly 20 degrees
OneTurnPerQualifyingIndexWitness ==
    /\ tstage = "detected"
    /\ Len(points_with_headings) = 5
    /\ SampleHeading(0) = 350 /\ SampleHeading(3) = 10
    /\ SampleHeading(1) = 0 /\ SampleHeading(4) = 20
    /\ Len(detected_turns) = 2
    /\ detected_turns[1].start_location # detected_turns[2].start_location

Merged == tstage = "merged"

\* the detected turns that are at least 30 m from every provided turn
FarFromProvided ==
    { k \in DOMAIN detected_turns :
        \A g \in DOMAIN google_turns :
            Dist2(detected_turns[k].start_location, google_turns[g].start_location) >= 900 }

FarFromProvidedAt(m) ==
    CHOOSE k \in FarFromProvided : Cardinality({ j \in FarFromProvided : j < k }) = m - 1

\* C14: the provided turns, unchanged and in order, then the detected turns in
\* order without those closer than 30 m to some provided turn; no detected
\* turn is dropped because of another detected turn.
MergeKeepsProvidedThenFarDetected ==
    Merged =>
        /\ Len(all_turns) = Len(google_turns) + Cardinality(FarFromProvided)
        /\ \A k \in DOMAIN google_turns : all_turns[k] = google_turns[k]
        /\ \A m \in 1..Cardinality(FarFromProvided) :
              all_turns[Len(google_turns) + m] = detected_turns[FarFromProvidedAt(m)]

\* a detected turn is dropped, one exactly 30 m from a provided turn is kept,
\* and two detected turns 5 m apart are both kept
MergeWitness ==
    /\ Merged
    /\ google_turns # <<>>
    /\ \E k \in DOMAIN detected_turns : k \notin FarFromProvided
    /\ \E k \in FarFromProvided : \E g \in DOMAIN google_turns :
          Dist2(detected_turns[k].start_location, google_turns[g].start_location) = 900
    /\ \E k, l \in FarFromProvided :
          /\ k # l
          /\ Dist2(detected_turns[k].start_location, detected_turns[l].start_location) <= 400

----------------------------------------------------------------------------
(* Claims about the alerts of a frame *)

\* a comes no later than b in the order (priority, distance)
NoLater(a, b) ==
    \/ a.priority < b.priority
    \/ a.priority = b.priority /\ a.alertDistance <= b.alertDistance

\* C16: the alerts of a call are in ascending order of (priority, distance),
\* turn alerts (priority 1) before landmark alerts (priority 2), and the
\* output frame carries at most one alert, the first of that list.
SortedAndFirstAttached ==
    /\ \A i, j \in DOMAIN frame_alerts : i < j => NoLater(frame_alerts[i], frame_alerts[j])
    /\ \A i \in DOMAIN frame_alerts :
          frame_alerts[i].priority = (IF frame_alerts[i].alertType = "turn" THEN 1 ELSE 2)
    /\ frame_dict # NoFrame =>
          /\ Len(frame_dict.attached) <= 1
          /\ frame_alerts = <<>> => frame_dict.attached = <<>>
          /\ frame_alerts # <<>> =>
                /\ frame_dict.attached = <<frame_alerts[1]>>
                /\ \A i \in DOMAIN frame_alerts :
                      NoLater(frame_dict.attached[1], frame_alerts[i])

\* two turn alerts found farther-first and a landmark nearer than both: the
\* nearer turn is first, the landmark last, and the frame carries the first
SortedAndFirstAttachedWitness ==
    /\ frame_dict # NoFrame
    /\ Len(frame_alerts) = 3
    /\ frame_alerts[1].alertType = "turn" /\ frame_alerts[1].turn = 2
    /\ frame_alerts[2].alertType = "turn" /\ frame_alerts[2].turn = 1
    /\ frame_alerts[1].alertDistance < frame_alerts[2].alertDistance
    /\ frame_alerts[3].alertType = "landmark"
    /\ frame_alerts[3].alertDistance < frame_alerts[1].alertDistance
    /\ frame_dict.attached = <<frame_alerts[1]>>

LandmarkKeys(prev) == { k \in prev : k[1] = "landmark" }

\* the turns that the call has to alert for: ahead of the frame, within 120 m,
\* with a key not fired before and not fired for an earlier turn of this call
TurnsDue(frame_index, dists, prev) ==
    LET keyOf(t) == <<"turn", turns[t].maneuver, (dists[t] \div 10) * 10>>
        inReach(t) == frame_index < turns[t].turn_index /\ dists[t] <= 120
    IN  { t \in DOMAIN turns :
            /\ inReach(t)
            /\ keyOf(t) \notin prev
            /\ \A u \in DOMAIN turns : u < t /\ inReach(u) => keyOf(u) # keyOf(t) }

\* C17: when the landmark lookup of a call fails, the call returns exactly its
\* turn alerts, landmark_history is unchanged, no landmark key is added, and
\* the scan goes on to the next frame.
FailedLookupTolerated ==
    [][call_made'.lookup = "failed" =>
          /\ landmark_history' = landmark_history
          /\ LandmarkKeys(previous_alerts') = LandmarkKeys(previous_alerts)
          /\ \A i \in DOMAIN frame_alerts' : frame_alerts'[i].alertType = "turn"
          /\ { <<frame_alerts'[i].turn, frame_alerts'[i].alertDistance>> :
                  i \in DOMAIN frame_alerts' }
                = { <<t, call_made'.dists[t]>> :
                      t \in TurnsDue(frame_idx, call_made'.dists, previous_alerts) }
          /\ frame_idx' = frame_idx + 1]_vars

\* the lookup of frame 2 failed after the lookup of frame 0 had recorded a
\* landmark; the call returned a turn alert and the frame was kept
FailedLookupWitness ==
    /\ call_made.lookup = "failed"
    /\ frame_idx = 3
    /\ DOMAIN landmark_history # {}
    /\ LandmarkKeys(previous_alerts) # {}
    /\ frame_alerts # <<>>
    /\ frame_dict # NoFrame

----------------------------------------------------------------------------
(* Claims about the requests of interpolate_frames *)

FramesWithFile == { i \in DOMAIN req_frames : req_frames[i].exists }

TooFewFrames == Len(req_frames) < 2 \/ Cardinality(FramesWithFile) < 2

\* C20: with fewer than 2 frames, or fewer than 2 frames that have a file,
\* the request is answered with an error result without success, no
\* interpolation is run and frames_data.json is not written.
TooFewFramesAbort ==
    TooFewFrames /\ istage # "called" =>
        /\ istage = "returned"
        /\ iresult = "error"
        /\ all_frames = <<>>
        /\ combined_frames = <<>>
        /\ frames_data_json = FALSE

\* three frames are given and the route directory is there, but only one of
\* the frames has a file
TooFewFramesAbortWitness ==
    /\ istage = "returned"
    /\ Len(req_frames) = 3
    /\ route_dir_found
    /\ Cardinality(FramesWithFile) = 1
    /\ iresult = "error"

----------------------------------------------------------------------------
(* Claims about requests that meet a running generate_video *)

\* C19: a video file whose generation has not completed is never served by
\* serve_video and never reported as available by check_existing_route.
PartialVideoNeverServed ==
    /\ served # "partial"
    /\ reported # "partial"

\* the file is served while the write loop has frames left to write
ServedWhileWriting ==
    /\ vstage = "writing"
    /\ next_frame <= Len(frame_paths)
    /\ served = "partial"

\* the file is reported as available while the write loop is running
ReportedWhileWriting ==
    /\ vstage = "writing"
    /\ next_frame <= Len(frame_paths)
    /\ reported = "partial"

----------------------------------------------------------------------------
(* Claims about process_complete_pipeline *)

StageOrder == <<"generate_frames", "smooth", "regenerate_frames", "interpolate_frames">>

AllStagesOk ==
    /\ Len(stages_run) = Len(StageOrder)
    /\ \A k \in DOMAIN stages_run : stages_run[k].outcome = "ok"

\* C18: the stages are called in the order generate_frames, smooth,
\* regenerate_frames, interpolate_frames; a stage is called only after the
\* stage before it returned successfully, and with the frames that stage
\* returned; after a stage that failed no stage is called and the pipeline
\* returns an error, and it returns pipeline_success only when all four
\* stages succeeded.
PipelineStagesInOrder ==
    /\ Len(stages_run) <= Len(StageOrder)
    /\ \A k \in DOMAIN stages_run : stages_run[k].stage = StageOrder[k]
    /\ \A k \in DOMAIN stages_run :
         k > 1 => /\ stages_run[k - 1].outcome = "ok"
                  /\ stages_run[k].input = IF k = 2 THEN FramesOf(stages_run[1].output)
                                           ELSE stages_run[k - 1].output
    /\ \A k \in DOMAIN stages_run :
         stages_run[k].outcome # "ok" =>
            /\ k = Len(stages_run)
            /\ pstage = "returned"
            /\ presult \in {"error", "exception"}
    /\ presult = "pipeline_success" <=> (pstage = "returned" /\ AllStagesOk)

\* generate_frames returned no frame, smooth reported smoothed False for
\* it, and the pipeline returned its error without a third stage
PipelineStagesInOrderWitness ==
    /\ pstage = "returned"
    /\ Len(stages_run) = 2
    /\ stages_run[1].outcome = "ok"
    /\ stages_run[2].outcome = "failed"
    /\ stages_run[2].input = <<>>
    /\ presult = "error"

\* all four stages were called, the fourth with the one frame the third
\* returned, and its failure is the pipeline's error
PipelineFailsAtLastStage ==
    /\ pstage = "returned"
    /\ Len(stages_run) = 4
    /\ stages_run[4].outcome = "failed"
    /\ Len(stages_run[4].input) = 1
    /\ stages_run[3].output[1].filename = "smoothed_frame"
    /\ presult = "error"

----------------------------------------------------------------------------
(* Claims about the rate limiter *)

\* C21: any two requests sent to the landmark provider are at least
\* PLACES_API_DELAY apart.
RequestsSpaced ==
    \A i, j \in DOMAIN sent :
        i < j => sent[j] - sent[i] >= PLACES_API_DELAY

\* two callers passed the test of line 604 before either had sent, and
\* both requests left at the same time
ConcurrentRequests ==
    /\ Len(sent) >= 2
    /\ sent[1] = sent[2]
    /\ \A c \in Callers : rpc[c] = "posting"

\* one caller alone: its first request failed at once, the global was not
\* set, and its second request left without a sleep
RequestRightAfterFailure ==
    /\ Len(sent) = 2
    /\ sent[2] - sent[1] < PLACES_API_DELAY
    /\ rpc[1] = "posting"
    /\ \A c \in Callers : c # 1 => rpc[c] = "idle"
    /\ LAST_PLACES_API_CALL = 0

----------------------------------------------------------------------------
(* Claims about the dedup keys of turn alerts *)

\* C22: two alerts emitted for the same turn in one run are never less than
\* TURN_BUCKET (10 m) apart in distance.
TurnAlertHysteresis ==
    \A t \in DOMAIN turn_fired :
        \A d1, d2 \in turn_fired[t] :
            d1 # d2 => Abs(d1 - d2) >= TURN_BUCKET

\* the turn that fired at 75 m fires again at 69 m
FiredAgainNearby ==
    /\ 75 \in turn_fired[2]
    /\ \E i \in DOMAIN frame_alerts :
          frame_alerts[i].turn = 2 /\ frame_alerts[i].alertDistance = 69

\* C26: every key in previous_alerts is the key of an alert attached to a
\* frame of the frame list.
EveryKeyShown == previous_alerts \subseteq shown

\* a call returned two alerts, its frame was appended, and the key of the
\* second alert is recorded without a frame that shows it
SecondAlertNotShown ==
    /\ Len(frame_alerts) = 2
    /\ frame_dict # NoFrame
    /\ frame_alerts[1].key \in shown
    /\ frame_alerts[2].key \in previous_alerts \ shown

\* C27: when a turn ahead of the frame is within TURN_ALERT_DISTANCE and no
\* alert was emitted before for that turn in the bucket of its distance, the
\* call emits a turn alert for it.
DedupPerTurn ==
    [][\A t \in DOMAIN turns :
          (/\ ~TurnBehind(turns[t], frame_idx)
           /\ call_made'.dists[t] <= TURN_ALERT_DISTANCE
           /\ \A d \in turn_fired[t] :
                 Bucket(d, TURN_BUCKET) # Bucket(call_made'.dists[t], TURN_BUCKET))
          => \E i \in DOMAIN frame_alerts' : frame_alerts'[i].turn = t]_vars

\* two left turns at the same distance: one alert, for the first of them
OtherTurnSuppressed ==
    /\ turns[1].maneuver = turns[2].maneuver
    /\ frame_idx = 1
    /\ call_made.dists = <<75, 75>>
    /\ Len(frame_alerts) = 1
    /\ frame_alerts[1].turn = 1
    /\ turn_fired[2] = {}

----------------------------------------------------------------------------
(* Claims about the records of the interpolated frames *)

SynthesizedPaths == { all_frames[p] : p \in { q \in DOMAIN all_frames :
                                                all_frames[q].kind = "interpolated" } }

RecordsNaming(path) == { x \in DOMAIN combined_frames : combined_frames[x].filename = path }

\* C23: the record for step j between the source frames i and i+1 is flagged
\* interpolated and its filename is the image synthesized for that pair and
\* that step; a source record keeps its own filename; every synthesized image
\* is the filename of exactly one record.  Stated for the runs in which every
\* image was read and saved.
RecordNamesItsImage ==
    (AllSaved /\ combined_frames # <<>>) =>
        /\ \A x \in DOMAIN combined_frames :
              LET r == combined_frames[x]
              IN  IF r.interpolated
                  THEN r.filename = InterpolatedPath(r.frame, r.step)
                  ELSE r.filename = SourcePath(r.frame)
        /\ \A path \in SynthesizedPaths : Cardinality(RecordsNaming(path)) = 1

\* all images saved, and the record of step 1 names the source image while
\* the image of the last step is named by no record
RecordNamesOtherImage ==
    /\ AllSaved
    /\ NumSources = 2 /\ interpolation_factor = 2
    /\ Len(combined_frames) = 4
    /\ combined_frames[2].interpolated /\ combined_frames[2].step = 1
    /\ combined_frames[2].filename = SourcePath(1)
    /\ combined_frames[3].filename = InterpolatedPath(1, 1)
    /\ RecordsNaming(InterpolatedPath(1, 2)) = {}

\* the heading of a source frame after smoothing
PostSmoothingHeading(frame) ==
    IF frame.smoothedHeading # None THEN frame.smoothedHeading ELSE frame.heading

\* C24: the heading of every interpolated record is interpolated between the
\* smoothedHeading values of its two source frames, for every smoothed value
\* including 0; the raw heading stands in only where smoothedHeading is absent.
SmoothedHeadingsInterpolated ==
    \A x \in DOMAIN combined_frames :
        LET r == combined_frames[x]
        IN  r.interpolated =>
              r.smoothedHeading =
                 InterpHeading(PostSmoothingHeading(src_frames[r.frame]),
                               PostSmoothingHeading(src_frames[r.frame + 1]),
                               r.step - 1, interpolation_factor)

\* a source frame smoothed to 0 degrees from a raw heading of 190, and a
\* record interpolated from 190
SmoothedZeroIgnored ==
    /\ NumSources = 2 /\ interpolation_factor = 1
    /\ src_frames[1].smoothedHeading = 0 /\ src_frames[1].heading = 190
    /\ src_frames[2].smoothedHeading = 200
    /\ Len(combined_frames) = 3
    /\ combined_frames[2].interpolated
    /\ combined_frames[2].smoothedHeading = [num |-> 390, den |-> 2]

----------------------------------------------------------------------------
(* Claims about the alerts of the frames along the pipeline *)

AlertOf(frame) ==
    [alert |-> frame.alert, alertType |-> frame.alertType,
     alertDistance |-> frame.alertDistance]

SourceFramesOf(frames) == SelectSeq(frames, LAMBDA f : ~f.interpolated)

SameAlerts(frames, generated) ==
    /\ Len(frames) = Len(generated)
    /\ \A i \in DOMAIN generated : AlertOf(frames[i]) = AlertOf(generated[i])

\* C25: the frames that smooth, regenerate_frames and interpolate_frames
\* return carry, source frame by source frame, the alert type, text and
\* distance that generate_frames attached, and an interpolated frame carries
\* no alert.
AlertsPreserved ==
    \A k \in DOMAIN stages_run :
        (k >= 2 /\ stages_run[k].outcome = "ok") =>
            /\ SameAlerts(SourceFramesOf(stages_run[k].output), stages_run[1].output)
            /\ \A x \in DOMAIN stages_run[k].output :
                  stages_run[k].output[x].interpolated =>
                      AlertOf(stages_run[k].output[x]) = AlertOf(NoPipeAlert)

\* a finished pipeline: three generated frames, a turn alert on the first and
\* a landmark alert on the last, two interpolated frames between neighbours
AlertsPreservedWitness ==
    /\ presult = "pipeline_success"
    /\ Len(stages_run[1].output) = 3
    /\ stages_run[1].output[1].alertType = "turn"
    /\ stages_run[1].output[2].alertType = ""
    /\ stages_run[1].output[3].alertType = "landmark"
    /\ Len(stages_run[4].output) = 7
    /\ stages_run[4].output[7].alert = "Park: A in 120m"

----------------------------------------------------------------------------
(* Claims about landmark alerts added to a schedule *)

\* a / b >= c / d for durations with positive denominators
AtLeast(a, b) == a.num * b.den >= b.num * a.den

\* the frame list without the alert of frame l
WithoutAlertAt(data, l) == [data EXCEPT ![l] = NoAlert]

\* C28: the duration of every frame is at least the duration it has in the
\* schedule of the same frame list without one of its landmark alerts.
LandmarkNeverShortens ==
    dstage = "scheduled" =>
        \A l \in FramesOfType(frames_data, "landmark") :
            LET before == calculate_frame_durations(WithoutAlertAt(frames_data, l), fps)
            IN  \A i \in DOMAIN frames_data : AtLeast(frame_durations[i], before[i])

\* a turn alert on frame 1 and a landmark alert 30 frames later: frame 1
\* gets the far-approach landmark duration instead of the turn duration
TurnFrameShortened ==
    /\ dstage = "scheduled"
    /\ Len(frames_data) = MaxDurFrames
    /\ FramesOfType(frames_data, "turn") = {1}
    /\ FramesOfType(frames_data, "landmark") = {31}
    /\ frame_durations[1] = Slowed(fps, LANDMARK_SPEED_PERCENT, 3)
    /\ ~AtLeast(frame_durations[1], TurnDuration(fps, 0))

----------------------------------------------------------------------------
(* Claims about the frames selected for the video *)

SelJson == JsonRecords(sel_frames, sel_factor)

\* C29: the image paths selected for the video have the length and the order
\* of the records of frames_data.json, and the records used for the
\* durations are those records.
PathsMatchRecords ==
    sstage = "selected" =>
        /\ Len(sel_paths) = Len(SelJson)
        /\ \A i \in DOMAIN sel_paths : sel_paths[i] = SelJson[i].filename
        /\ sel_data = SelJson

\* two frames that were not regenerated, factor 2: frames_data.json has four
\* records, the video is made of the two synthesized images alone
OnlySynthesizedSelected ==
    /\ sstage = "selected"
    /\ Len(sel_frames) = 2 /\ sel_factor = 2
    /\ Len(sel_data) = 4
    /\ Len(sel_paths) = 2
    /\ \A i \in DOMAIN sel_paths : sel_paths[i].name = <<"interpolated">>

\* regenerated frames with an alert: the synthesized images are named
\* smooth_interpolated_*, no pattern finds them, and the video is made of
\* the smoothed source images without any alert
AlertsLostInSelection ==
    /\ sstage = "selected"
    /\ \A i \in DOMAIN sel_frames : sel_frames[i].filename = "smoothed_frame"
    /\ \E i \in DOMAIN sel_frames : sel_frames[i].alertType = "turn"
    /\ sel_factor = 1
    /\ Len(sel_paths) = Len(sel_frames)
    /\ \A i \in DOMAIN sel_paths : sel_paths[i].dir = "smoothed"
    /\ \A i \in DOMAIN sel_data : sel_data[i].alertType = ""

----------------------------------------------------------------------------
(* Claims about the answer of generate_video *)

\* C30: when no codec opens on .mp4 and the .avi fallback opens, the answer
\* of generate_video has success true and its video path and file name are
\* those of the file that was written.
AviFallbackReported ==
    (/\ gv_result # NoResult
     /\ vstage = "returned"
     /\ OpeningPlaces = {}
     /\ output_path = ".avi") =>
        /\ gv_result.success
        /\ gv_result.video_path = output_path
        /\ gv_result.video_filename = output_path

\* the frames were written to the .avi file and the answer is a failure
AviFallbackFails ==
    /\ AviFallbackReached
    /\ videos_dir = {".avi"}
    /\ gv_result = Failure

\* the frames were written to the .avi file and the answer names the .mp4
AviFallbackNamesMp4 ==
    /\ AviFallbackReached
    /\ videos_dir = {".avi"}
    /\ gv_result.success
    /\ gv_result.video_path = ".mp4"

====
